---- MODULE Spec2Model ----
(***************************************************************************)
(* OSUSat core: the event bus (osusat_event_bus.c, carried at the end of   *)
(* include/osusat/slog.h), the structured logger (src/slog.c) and the      *)
(* modulo ring buffer they sit on (ring_buffer.c).                         *)
(*                                                                         *)
(* The event bus is modelled for the __arm__ build, where ENTER_CRITICAL   *)
(* saves PRIMASK and masks interrupts.  Execution contexts are a stack of  *)
(* frames: the bottom frame is the call running in the main loop, a frame  *)
(* above it is either a call made by an event handler or an interrupt      *)
(* service routine that preempted the frame below.  Only the top frame     *)
(* runs.  Every statement of publish() and process() is one step.          *)
(***************************************************************************)
EXTENDS Integers, Sequences, FiniteSets, TLC

\* ---------------------------------------------------------------- bounds

\* OSUSAT_EVENT_MAX_PAYLOAD is 32 and OSUSAT_EVENT_MAX_SUBSCRIBERS is 128 in
\* event_bus.h; the model scales both down.
OSUSAT_EVENT_MAX_PAYLOAD == 2
OSUSAT_EVENT_MAX_SUBSCRIBERS == 2
MaxCapacity == 3      \* largest queue_capacity handed to init
MaxCalls == 5         \* API calls made from the main loop (Spec)
MaxDataCalls == 4     \* API calls made from the main loop (SpecData)
MaxIsrCalls == 3      \* API calls made from the main loop (SpecIsr)
MaxIsr == 2           \* interrupts taken (each runs one publish)
MaxHandlerCalls == 1  \* API calls made from inside handlers

\* MAX_LOG_MESSAGE_LEN is 128 in slog.c; the model scales it down.
MAX_LOG_MESSAGE_LEN == 3
LogCapacity == 25     \* capacity of the logger's ring buffer
MaxLogCalls == 4      \* logger calls made from the main loop (SpecLog)
StepCapacity == 13           \* capacity of the ring buffer, stepwise logger
MaxStepCalls == 2            \* calls of the main loop, stepwise logger
MaxLogIsr == 1               \* interrupts taken, stepwise logger
MaxLiveCalls == 3            \* calls of the main loop, liveness of process()
MaxRingCap == 3              \* largest capacity of the generic ring buffer
MaxRingCalls == 5            \* ring buffer calls of the caller
MaxFrameCalls == 4           \* logger calls of the framing runs
MaxLeakCalls == 5            \* bus calls of the slot reuse runs
MaxClockCalls == 2           \* write() calls of the main loop while the clock runs
MaxTicks == 2                \* the times the timestamp source moves on
MaxEquivCalls == 7           \* calls made on the two ring buffers side by side

NULL == 0
STORAGE == 1          \* the caller's osusat_event_t array
BUF == 1              \* the caller's payload buffer

EventIds == {1, 2}    \* the osusat_event_id_t values callers use
Handlers == {1, 2}    \* the handler functions callers register
Bytes == {1, 2}       \* the byte values callers put in payload buffers
PayloadIdx == 1..OSUSAT_EVENT_MAX_PAYLOAD

Min(a, b) == IF a < b THEN a ELSE b

\* ---------------------------------------------------------------- state

VARIABLES
    subs,        \* bus.subs: 0..MAX_SUBSCRIBERS-1 -> [id, handler]
    sub_count,   \* bus.sub_count
    queue,       \* bus.queue: NULL or STORAGE
    capacity,    \* bus.capacity
    head,        \* bus.head
    tail,        \* bus.tail
    storage,     \* the caller's event array: 0..MaxCapacity-1 -> osusat_event_t
    primask,     \* PRIMASK: 1 = interrupts masked
    stack,       \* frames of the running calls, top last
    callerBuf,   \* the payload buffer callers publish from
    pending,     \* history: events whose publish advanced head, not yet dequeued
    hlog,        \* history: handler invocations of the current process() call
    expected,    \* history: the invocations the dequeued events call for
    lastInit,    \* history: arguments of the last init()
    lastOp,      \* history: the last subscribe(): arguments and return value
    npub,        \* history: publishes that advanced head since init()
    calls,       \* API calls the main loop may still make
    isrs,        \* interrupts taken so far
    hcalls,      \* API calls made from handlers so far
    rb,          \* the osusat_ring_buffer_t the logger writes to
    g_log_buffer,   \* slog.c g_log_buffer: NULL or RB
    g_timestamp_fn, \* slog.c g_timestamp_fn: NULL or MOCK
    g_min_level,    \* slog.c g_min_level
    mock_timestamp, \* the value the timestamp source returns
    delivered,   \* the flush callback's invocations during the last flush()
    flush_ret,   \* return value of the last flush()
    lastWrite,   \* history: the last write(): arguments and the state it met
    lastFlush,   \* history: the last flush(): its callback and the state it met
    logOp,       \* history: the last logger operation
    written,     \* history: the write() calls made since the store was last
                 \* emptied, as the caller made them
    owner,       \* history: for each byte of the store, the write() call that
                 \* pushed it and its place in the record (stepwise logger)
    lcalls,      \* logger calls the main loop may still make
    pw,          \* the caller's osusat_ring_buffer_pow2_t
    ringHist,    \* history: bytes each store accepted and bytes it returned
    lastRing,    \* history: the last ring buffer call and its result
    rcalls       \* ring buffer calls the caller may still make

busVars == <<subs, sub_count, queue, capacity, head, tail>>
vars == <<subs, sub_count, queue, capacity, head, tail, storage, primask, stack,
          callerBuf, pending, hlog, expected, lastInit, lastOp, npub, calls,
          isrs, hcalls, rb, g_log_buffer, g_timestamp_fn, g_min_level,
          mock_timestamp, delivered, flush_ret, lastWrite, lastFlush, logOp,
          written, owner, lcalls, pw, ringHist, lastRing, rcalls>>
eventVars == <<subs, sub_count, queue, capacity, head, tail, storage, primask,
               stack, callerBuf, pending, hlog, expected, lastInit, lastOp,
               npub, calls, isrs, hcalls>>
logVars == <<rb, g_log_buffer, g_timestamp_fn, g_min_level, mock_timestamp,
             delivered, flush_ret, lastWrite, lastFlush, logOp, written,
             owner, lcalls, pw, ringHist, lastRing, rcalls>>
ringVars == <<pw, ringHist, lastRing, rcalls>>

ZeroPayload == [k \in PayloadIdx |-> 0]
ZeroEvent == [id |-> 0, payload |-> ZeroPayload, payload_len |-> 0]
ZeroSub == [id |-> 0, handler |-> NULL]

\* A frame of publish() or process().  Fields a call does not use stay 0.
Frame(op, ctx, id, payload, len) ==
    [op |-> op, pc |-> IF op = "publish" THEN "p_entry" ELSE "r_entry",
     ctx |-> ctx, id |-> id, payload |-> payload, len |-> len,
     saved |-> 0, next_head |-> 0, success |-> FALSE, i |-> 0,
     len0 |-> len, buf0 |-> callerBuf, npub0 |-> npub, snap |-> <<>>,
     mask0 |-> primask]

Top == stack[Len(stack)]
Depth == Len(stack)
SetTop(f) == [stack EXCEPT ![Len(stack)] = f]
Pop == SubSeq(stack, 1, Len(stack) - 1)
At(pc) == Depth > 0 /\ Top.pc = pc

\* osusat_event_bus_init, after the memset: bus.queue and bus.capacity are
\* set when the storage is non-null and the capacity positive.
Bound(st, cap) ==
    IF st # NULL /\ cap > 0 THEN [queue |-> st, capacity |-> cap]
                            ELSE [queue |-> NULL, capacity |-> 0]

\* memset(&bus, 0, sizeof(bus)): the cleared subscriber table.
ClearedSubs == [k \in 0..(OSUSAT_EVENT_MAX_SUBSCRIBERS - 1) |-> ZeroSub]

InitBus(st, cap) ==
    /\ subs = ClearedSubs
    /\ sub_count = 0
    /\ head = 0
    /\ tail = 0
    /\ queue = Bound(st, cap).queue
    /\ capacity = Bound(st, cap).capacity
    /\ lastInit = <<st, cap>>

\* The state after the first init(): a zeroed event array, interrupts enabled,
\* nothing running.
InitWith(inits, budget) ==
    /\ \E a \in inits : InitBus(a[1], a[2])
    /\ storage = [k \in 0..(MaxCapacity - 1) |-> ZeroEvent]
    /\ primask = 0
    /\ stack = <<>>
    /\ callerBuf = [k \in PayloadIdx |-> 1]
    /\ pending = <<>>
    /\ hlog = <<>>
    /\ expected = <<>>
    /\ lastOp = <<>>
    /\ npub = 0
    /\ calls = budget
    /\ isrs = 0
    /\ hcalls = 0

\* ------------------------------------------------------- critical section

\* ENTER_CRITICAL, first statement: uint32_t primask = __get_PRIMASK();
SavePrimask(f) == [f EXCEPT !.saved = primask]

\* Mutant: the critical section leaves interrupts enabled.
MaskedPrimaskOff == primask

\* ENTER_CRITICAL, second statement: cpsid i
MaskedPrimask == 1

\* EXIT_CRITICAL: __set_PRIMASK(primask)
RestoredPrimask(f) == f.saved

\* ------------------------------------------------------------------ init

\* Mutant: init() binds the storage and clears the table, and leaves the
\* queue indices as they are.
BusInitKeepsQueue(st, cap) ==
    /\ stack = <<>>
    /\ calls > 0
    /\ subs' = ClearedSubs
    /\ sub_count' = 0
    /\ queue' = Bound(st, cap).queue
    /\ capacity' = Bound(st, cap).capacity
    /\ lastInit' = <<st, cap>>
    /\ pending' = <<>>
    /\ hlog' = <<>>
    /\ expected' = <<>>
    /\ npub' = 0
    /\ calls' = calls - 1
    /\ UNCHANGED logVars
    /\ UNCHANGED <<head, tail, storage, primask, stack, callerBuf, lastOp,
                   isrs, hcalls>>

\* osusat_event_bus_init: memset(&bus, 0, sizeof(bus)), then bind the storage
\* when it is non-null and the capacity is positive.
BusInit(st, cap) ==
    /\ stack = <<>>
    /\ calls > 0
    /\ subs' = ClearedSubs
    /\ sub_count' = 0
    /\ head' = 0
    /\ tail' = 0
    /\ queue' = Bound(st, cap).queue
    /\ capacity' = Bound(st, cap).capacity
    /\ lastInit' = <<st, cap>>
    /\ pending' = <<>>
    /\ hlog' = <<>>
    /\ expected' = <<>>
    /\ npub' = 0
    /\ calls' = calls - 1
    /\ UNCHANGED logVars
    /\ UNCHANGED <<storage, primask, stack, callerBuf, lastOp, isrs, hcalls>>

\* ------------------------------------------------------------- subscribe

\* Mutant: the table-full test is off by one.
TableFullOffByOne == sub_count > OSUSAT_EVENT_MAX_SUBSCRIBERS

\* The table-full test of osusat_event_bus_subscribe.
TableFull == sub_count >= OSUSAT_EVENT_MAX_SUBSCRIBERS

\* osusat_event_bus_subscribe: the table and count after the call, and the
\* value returned.
SubscribeResult(id, h) ==
    IF TableFull \/ h = NULL
       THEN [subs |-> subs, sub_count |-> sub_count, ret |-> FALSE]
       ELSE [subs |-> [subs EXCEPT ![sub_count] = [id |-> id, handler |-> h]],
             sub_count |-> sub_count + 1, ret |-> TRUE]

DoSubscribe(id, h, n) ==
    LET r == SubscribeResult(id, h)
    IN  /\ subs' = r.subs
        /\ sub_count' = r.sub_count
        /\ lastOp' = [n |-> n, id |-> id, handler |-> h, ret |-> r.ret]

\* subscribe() called from the main loop.
Subscribe(id, h) ==
    /\ stack = <<>>
    /\ calls > 0
    /\ DoSubscribe(id, h, calls - hcalls - 1)
    /\ calls' = calls - 1
    /\ UNCHANGED logVars
    /\ UNCHANGED <<queue, capacity, head, tail, storage, primask, stack,
                   callerBuf, pending, hlog, expected, lastInit, npub, isrs,
                   hcalls>>

\* subscribe() called by a running handler.
HandlerSubscribe(id, h) ==
    /\ At("r_handler")
    /\ hcalls < MaxHandlerCalls
    /\ DoSubscribe(id, h, calls - hcalls - 1)
    /\ hcalls' = hcalls + 1
    /\ UNCHANGED logVars
    /\ UNCHANGED <<queue, capacity, head, tail, storage, primask, stack,
                   callerBuf, pending, hlog, expected, lastInit, npub, calls,
                   isrs>>

\* --------------------------------------------------------------- publish

\* Mutant: len is not truncated.
TruncateNot(len) == len

\* if (len > OSUSAT_EVENT_MAX_PAYLOAD) len = OSUSAT_EVENT_MAX_PAYLOAD;
Truncate(len) ==
    IF len > OSUSAT_EVENT_MAX_PAYLOAD THEN OSUSAT_EVENT_MAX_PAYLOAD ELSE len

\* Mutant: the producer index does not wrap.
NextHeadNoWrap == {head + 1}

\* size_t next_head = (bus.head + 1) % bus.capacity;  A zero divisor is
\* undefined behaviour: any index may result.
NextHead ==
    IF capacity = 0 THEN 0..(MaxCapacity - 1) ELSE {(head + 1) % capacity}

\* Mutant: the full test is missing.
HasRoomAlways(next_head) == TRUE

\* if (next_head != bus.tail)
HasRoom(next_head) == next_head # tail

\* Mutant: the slot written is the one after head.
WriteIndexNext == (head + 1) % capacity

\* osusat_event_t *event = &bus.queue[bus.head];
WriteIndex == head

\* The payload array of the slot after memcpy(event->payload, payload, len)
\* or memset(event->payload, 0, OSUSAT_EVENT_MAX_PAYLOAD).
CopyPayload(old, payload, len) ==
    IF payload # NULL /\ len > 0
       THEN [k \in PayloadIdx |-> IF k <= len THEN callerBuf[k] ELSE old[k]]
       ELSE ZeroPayload

\* The slot after event->id = event_id; event->payload_len = (uint8_t)len;
\* and the payload copy.
WriteSlot(old, f) ==
    [id |-> f.id,
     payload_len |-> f.len % 256,
     payload |-> CopyPayload(old.payload, f.payload, f.len)]

\* History: what a successful publish promises the handler will see.
Promised(f) ==
    LET n == Min(f.len0, OSUSAT_EVENT_MAX_PAYLOAD)
    IN  [id |-> f.id,
         payload_len |-> n,
         data |-> [k \in 1..n |->
                     IF f.payload = NULL \/ f.len0 = 0 THEN 0 ELSE f.buf0[k]],
         slot |-> f.i, seq |-> npub, nsub |-> sub_count, buf |-> f.buf0,
         len |-> f.len0, ptr |-> f.payload]

frameVars == <<callerBuf, lastInit, lastOp, calls, isrs, hcalls>>
histVars == <<pending, hlog, expected, npub>>

\* Mutant: publish() does not test bus.queue.
PublishEntryNoCheck ==
    /\ At("p_entry")
    /\ stack' = SetTop([Top EXCEPT !.pc = "p_mrs", !.success = FALSE,
                                   !.len = Truncate(Top.len)])
    /\ UNCHANGED <<logVars, busVars, storage, primask, histVars, frameVars>>

\* if (bus.queue == NULL) return false;  success = false;  truncate len
PublishEntry ==
    /\ At("p_entry")
    /\ stack' = SetTop(IF queue = NULL
                          THEN [Top EXCEPT !.pc = "p_ret", !.success = FALSE]
                          ELSE [Top EXCEPT !.pc = "p_mrs", !.success = FALSE,
                                           !.len = Truncate(Top.len)])
    /\ UNCHANGED <<logVars, busVars, storage, primask, histVars, frameVars>>

\* ENTER_CRITICAL: read PRIMASK
PublishSaveMask ==
    /\ At("p_mrs")
    /\ stack' = SetTop([SavePrimask(Top) EXCEPT !.pc = "p_cpsid"])
    /\ UNCHANGED <<logVars, busVars, storage, primask, histVars, frameVars>>

\* ENTER_CRITICAL: cpsid i
PublishMask ==
    /\ At("p_cpsid")
    /\ primask' = MaskedPrimask
    /\ stack' = SetTop([Top EXCEPT !.pc = "p_next",
                                   !.snap = <<head, tail, storage>>])
    /\ UNCHANGED <<logVars, busVars, storage, histVars, frameVars>>

PublishNextHead ==
    /\ At("p_next")
    /\ \E nh \in NextHead :
           stack' = SetTop([Top EXCEPT !.pc = "p_cmp", !.next_head = nh])
    /\ UNCHANGED <<logVars, busVars, storage, primask, histVars, frameVars>>

PublishCompare ==
    /\ At("p_cmp")
    /\ stack' = SetTop([Top EXCEPT !.pc = IF HasRoom(Top.next_head)
                                            THEN "p_write" ELSE "p_exit"])
    /\ UNCHANGED <<logVars, busVars, storage, primask, histVars, frameVars>>

\* osusat_event_t *event = &bus.queue[bus.head]; fill the slot
PublishWrite ==
    /\ At("p_write")
    /\ storage' = [storage EXCEPT
                      ![WriteIndex] = WriteSlot(storage[WriteIndex], Top)]
    /\ stack' = SetTop([Top EXCEPT !.pc = "p_head", !.i = WriteIndex])
    /\ UNCHANGED <<logVars, busVars, primask, histVars, frameVars>>

\* bus.head = next_head; success = true;
PublishAdvance ==
    /\ At("p_head")
    /\ head' = Top.next_head
    /\ stack' = SetTop([Top EXCEPT !.pc = "p_exit", !.success = TRUE])
    /\ pending' = Append(pending, Promised(Top))
    /\ npub' = npub + 1
    /\ UNCHANGED logVars
    /\ UNCHANGED <<subs, sub_count, queue, capacity, tail, storage, primask,
                   hlog, expected, frameVars>>

\* EXIT_CRITICAL
PublishExit ==
    /\ At("p_exit")
    /\ primask' = RestoredPrimask(Top)
    /\ stack' = SetTop([Top EXCEPT !.pc = "p_ret"])
    /\ UNCHANGED <<logVars, busVars, storage, histVars, frameVars>>

\* return success;
PublishReturn ==
    /\ At("p_ret")
    /\ stack' = Pop
    /\ UNCHANGED <<logVars, busVars, storage, primask, histVars, frameVars>>

\* publish() called from the main loop.
Publish(id, payload, len) ==
    /\ stack = <<>>
    /\ calls > 0
    /\ stack' = <<Frame("publish", "main", id, payload, len)>>
    /\ calls' = calls - 1
    /\ UNCHANGED logVars
    /\ UNCHANGED <<busVars, storage, primask, callerBuf, histVars, lastInit,
                   lastOp, isrs, hcalls>>

\* publish() called by a running handler.
HandlerPublish(id, payload, len) ==
    /\ At("r_handler")
    /\ hcalls < MaxHandlerCalls
    /\ stack' = Append(stack, Frame("publish", "handler", id, payload, len))
    /\ hcalls' = hcalls + 1
    /\ UNCHANGED logVars
    /\ UNCHANGED <<busVars, storage, primask, callerBuf, histVars, lastInit,
                   lastOp, calls, isrs>>

\* The caller rewrites its payload buffer between calls.
CallerWrite(b) ==
    /\ stack = <<>>
    /\ callerBuf # b
    /\ callerBuf' = b
    /\ UNCHANGED logVars
    /\ UNCHANGED <<busVars, storage, primask, stack, histVars, lastInit,
                   lastOp, calls, isrs, hcalls>>

\* --------------------------------------------------------------- process

\* Mutant: the consumer index advances by two.
NextTailSkip == {(tail + 2) % capacity}

\* bus.tail = (bus.tail + 1) % bus.capacity;
NextTail ==
    IF capacity = 0 THEN 0..(MaxCapacity - 1) ELSE {(tail + 1) % capacity}

\* while (bus.tail != bus.head)
QueueNotEmpty == tail # head

\* Mutant: every subscription matches.
SubMatchesAny(i) == TRUE

\* if (bus.subs[i].id == current_event->id), current_event = &bus.queue[bus.tail]
SubMatches(i) == subs[i].id = storage[tail].id

\* History: the pending entry written to a slot, if any.
Written(slot) ==
    IF \E k \in 1..Len(pending) : pending[k].slot = slot
       THEN pending[CHOOSE k \in 1..Len(pending) : pending[k].slot = slot]
       ELSE [seq |-> -1, nsub |-> -1]

\* History: what a handler is handed, as far as payload_len says it is valid,
\* from the slot process() reads.
Seen(i, ev) ==
    [sub |-> i, handler |-> subs[i].handler, id |-> ev.id,
     payload_len |-> ev.payload_len,
     data |-> [k \in 1..Min(ev.payload_len, OSUSAT_EVENT_MAX_PAYLOAD) |->
                 ev.payload[k]],
     slot |-> tail, seq |-> Written(tail).seq, nsub |-> Written(tail).nsub]

\* History: the invocations a pending event calls for, in table order.
Due(p) ==
    LET idx == SelectSeq([k \in 1..sub_count |-> k - 1],
                         LAMBDA i: subs[i].id = p.id)
    IN  [k \in 1..Len(idx) |->
           [sub |-> idx[k], handler |-> subs[idx[k]].handler, id |-> p.id,
            payload_len |-> p.payload_len, data |-> p.data,
            slot |-> p.slot, seq |-> p.seq, nsub |-> p.nsub]]

\* process() called from the main loop.
Process ==
    /\ stack = <<>>
    /\ calls > 0
    /\ stack' = <<Frame("process", "main", 0, NULL, 0)>>
    /\ hlog' = <<>>
    /\ expected' = <<>>
    /\ calls' = calls - 1
    /\ UNCHANGED logVars
    /\ UNCHANGED <<busVars, storage, primask, callerBuf, pending, npub,
                   lastInit, lastOp, isrs, hcalls>>

\* if (bus.queue == NULL) return;
ProcessEntry ==
    /\ At("r_entry")
    /\ stack' = SetTop([Top EXCEPT !.pc = IF queue = NULL THEN "r_ret"
                                                          ELSE "r_loop"])
    /\ UNCHANGED <<logVars, busVars, storage, primask, histVars, frameVars>>

\* the while test; for (size_t i = 0; ...
ProcessLoop ==
    /\ At("r_loop")
    /\ stack' = SetTop(IF QueueNotEmpty
                          THEN [Top EXCEPT !.pc = "r_scan", !.i = 0]
                          ELSE [Top EXCEPT !.pc = "r_ret"])
    /\ UNCHANGED <<logVars, busVars, storage, primask, histVars, frameVars>>

\* i < bus.sub_count; the id test; the handler call; i++
ProcessScan ==
    /\ At("r_scan")
    /\ IF Top.i < sub_count
          THEN IF SubMatches(Top.i)
                  THEN /\ hlog' = Append(hlog, Seen(Top.i, storage[tail]))
                       /\ stack' = SetTop([Top EXCEPT !.pc = "r_handler",
                                                      !.snap = storage[tail]])
                  ELSE /\ stack' = SetTop([Top EXCEPT !.i = Top.i + 1])
                       /\ hlog' = hlog
          ELSE /\ stack' = SetTop([Top EXCEPT !.pc = "r_adv"])
               /\ hlog' = hlog
    /\ UNCHANGED <<logVars, busVars, storage, primask, pending, expected, npub,
                   frameVars>>

\* the handler returns
HandlerReturn ==
    /\ At("r_handler")
    /\ stack' = SetTop([Top EXCEPT !.pc = "r_scan", !.i = Top.i + 1])
    /\ UNCHANGED <<logVars, busVars, storage, primask, histVars, frameVars>>

ProcessAdvance ==
    /\ At("r_adv")
    /\ tail' \in NextTail
    /\ stack' = SetTop([Top EXCEPT !.pc = "r_loop"])
    /\ IF pending = <<>>
          THEN pending' = pending /\ expected' = Append(expected, "none")
          ELSE pending' = Tail(pending)
               /\ expected' = expected \o Due(Head(pending))
    /\ UNCHANGED logVars
    /\ UNCHANGED <<subs, sub_count, queue, capacity, head, storage, primask,
                   hlog, npub, frameVars>>

\* process() returns; the histories of the call are dropped with it.
ProcessReturn ==
    /\ At("r_ret")
    /\ stack' = Pop
    /\ hlog' = <<>>
    /\ expected' = <<>>
    /\ UNCHANGED logVars
    /\ UNCHANGED <<busVars, storage, primask, pending, npub, frameVars>>

\* ------------------------------------------------------------- interrupts

\* An interrupt is taken when PRIMASK is clear; its service routine calls
\* publish() and returns to the frame it preempted.
InFlight == stack # <<>>

Interrupt(id, payload, len) ==
    /\ primask = 0
    /\ InFlight
    /\ isrs < MaxIsr
    /\ stack' = Append(stack, Frame("publish", "isr", id, payload, len))
    /\ isrs' = isrs + 1
    /\ UNCHANGED logVars
    /\ UNCHANGED <<busVars, storage, primask, callerBuf, histVars, lastInit,
                   lastOp, calls, hcalls>>

\* ------------------------------------------------------------ ring buffer

\* ring_buffer.c.  A ring buffer value carries the bytes of its storage array
\* in the field buffer.
RB == 1               \* the caller's osusat_ring_buffer_t
MOCK == 1             \* the caller's timestamp function
CALLBACK == 1         \* the caller's flush callback

osusat_ring_buffer_init(cap, overwrite) ==
    [buffer |-> [k \in 0..(cap - 1) |-> 0], capacity |-> cap,
     head |-> 0, tail |-> 0, overwrite |-> overwrite]

osusat_ring_buffer_size(r) ==
    IF r.head >= r.tail THEN r.head - r.tail
                        ELSE r.capacity - (r.tail - r.head)

osusat_ring_buffer_empty(r) == r.head = r.tail

osusat_ring_buffer_full(r) == ((r.head + 1) % r.capacity) = r.tail

\* Mutant: a full buffer in overwrite mode stores the byte without evicting.
EvictNot(r) == r.tail

\* The tail after push() has made room: moved forward when the buffer is full.
Evict(r) ==
    IF osusat_ring_buffer_full(r) THEN (r.tail + 1) % r.capacity ELSE r.tail

\* Mutant: a full buffer without overwrite takes the byte all the same.
PushIntoFull(r, byte) ==
    [ok |-> TRUE,
     rb |-> [r EXCEPT !.tail = Evict(r),
                      !.buffer[r.head] = byte,
                      !.head = (r.head + 1) % r.capacity]]

\* push(): [ok, rb]; a full buffer rejects the byte unless overwrite is set.
osusat_ring_buffer_push(r, byte) ==
    IF osusat_ring_buffer_full(r) /\ ~r.overwrite
    THEN [ok |-> FALSE, rb |-> r]
    ELSE [ok |-> TRUE,
          rb |-> [r EXCEPT !.tail = Evict(r),
                           !.buffer[r.head] = byte,
                           !.head = (r.head + 1) % r.capacity]]

\* Mutant: pop() hands out the oldest byte and leaves it in the buffer.
PopKeeps(r) ==
    IF r.tail = r.head
    THEN [ok |-> FALSE, out |-> 0, rb |-> r]
    ELSE [ok |-> TRUE, out |-> r.buffer[r.tail], rb |-> r]

\* pop(): [ok, out, rb]; out is left alone (here 0) on an empty buffer.
osusat_ring_buffer_pop(r) ==
    IF r.tail = r.head
    THEN [ok |-> FALSE, out |-> 0, rb |-> r]
    ELSE [ok |-> TRUE, out |-> r.buffer[r.tail],
          rb |-> [r EXCEPT !.tail = (r.tail + 1) % r.capacity]]

\* peek(): [ok, out]; the buffer is left as it is.
osusat_ring_buffer_peek(r) ==
    IF r.tail = r.head
    THEN [ok |-> FALSE, out |-> 0]
    ELSE [ok |-> TRUE, out |-> r.buffer[r.tail]]

\* An object that was declared and never written.
UNINIT == -1

\* ------------------------------------------------ power-of-two ring buffer

\* ring_buffer_pow2.c.  x & y on size_t values.
RECURSIVE BitAnd(_, _)
BitAnd(x, y) ==
    IF x = 0 \/ y = 0 THEN 0
    ELSE (x % 2) * (y % 2) + 2 * BitAnd(x \div 2, y \div 2)

\* Mutant: zero counts as a power of two.
IsPow2OrZero(x) == BitAnd(x, x - 1) = 0

\* ring_buffer_pow2.h:67, return x && !(x & (x - 1));
osusat_is_pow2(x) == x # 0 /\ BitAnd(x, x - 1) = 0

\* A handle that was declared and never initialised.
UninitPow2 ==
    [buffer |-> <<>>, capacity |-> UNINIT, mask |-> UNINIT, head |-> UNINIT,
     tail |-> UNINIT]

\* init(): [ok, rb]
osusat_ring_buffer_pow2_init(r, cap) ==
    IF ~osusat_is_pow2(cap)
    THEN [ok |-> FALSE, rb |-> r]
    ELSE [ok |-> TRUE,
          rb |-> [buffer |-> [k \in 0..(cap - 1) |-> 0], capacity |-> cap,
                  mask |-> cap - 1, head |-> 0, tail |-> 0]]

osusat_ring_buffer_pow2_empty(r) == r.head = r.tail

osusat_ring_buffer_pow2_full(r) == BitAnd(r.head + 1, r.mask) = r.tail

\* Mutant: push() stores into a full buffer.
Pow2NoRoomNever(r) == FALSE

\* ring_buffer_pow2.c:19-21, next == rb->tail
Pow2NoRoom(r) == BitAnd(r.head + 1, r.mask) = r.tail

\* push(): [ok, rb]
osusat_ring_buffer_pow2_push(r, byte) ==
    IF Pow2NoRoom(r)
    THEN [ok |-> FALSE, rb |-> r]
    ELSE [ok |-> TRUE,
          rb |-> [r EXCEPT !.buffer[r.head] = byte,
                           !.head = BitAnd(r.head + 1, r.mask)]]

\* pop(): [ok, out, rb]; out is left alone (here 0) on an empty buffer.
osusat_ring_buffer_pow2_pop(r) ==
    IF r.head = r.tail
    THEN [ok |-> FALSE, out |-> 0, rb |-> r]
    ELSE [ok |-> TRUE, out |-> r.buffer[r.tail],
          rb |-> [r EXCEPT !.tail = BitAnd(r.tail + 1, r.mask)]]

\* peek(): [ok, out]; the buffer is left as it is.
osusat_ring_buffer_pow2_peek(r) ==
    IF r.head = r.tail
    THEN [ok |-> FALSE, out |-> 0]
    ELSE [ok |-> TRUE, out |-> r.buffer[r.tail]]

\* ------------------------------------------------------ ring buffer calls

NoRingHist ==
    [generic |-> [in |-> <<>>, out |-> <<>>],
     pow2 |-> [in |-> <<>>, out |-> <<>>]]

NoRing ==
    [op |-> "none", store |-> "none", arg |-> 0, ok |-> FALSE, out |-> 0,
     out0 |-> 0, before |-> <<>>]

\* osusat_ring_buffer_push() on the caller's generic store.
RingPush(byte) ==
    /\ rcalls > 0
    /\ rcalls' = rcalls - 1
    /\ LET p == osusat_ring_buffer_push(rb, byte)
       IN  /\ rb' = p.rb
           /\ ringHist' = IF p.ok
                          THEN [ringHist EXCEPT
                                   !.generic.in = Append(@, byte)]
                          ELSE ringHist
           /\ lastRing' = [op |-> "push", store |-> "generic", arg |-> byte,
                           ok |-> p.ok, out |-> 0, out0 |-> 0, before |-> rb]
    /\ UNCHANGED <<eventVars, g_log_buffer, g_timestamp_fn, g_min_level,
                   mock_timestamp, delivered, flush_ret, lastWrite, lastFlush,
                   logOp, written, owner, lcalls, pw>>

\* osusat_ring_buffer_pop(rb, &out), out holding out0 before the call.
RingPop(out0) ==
    /\ rcalls > 0
    /\ rcalls' = rcalls - 1
    /\ LET p == osusat_ring_buffer_pop(rb)
       IN  /\ rb' = p.rb
           /\ ringHist' = IF p.ok
                          THEN [ringHist EXCEPT
                                   !.generic.out = Append(@, p.out)]
                          ELSE ringHist
           /\ lastRing' = [op |-> "pop", store |-> "generic", arg |-> 0,
                           ok |-> p.ok,
                           out |-> IF p.ok THEN p.out ELSE out0,
                           out0 |-> out0, before |-> rb]
    /\ UNCHANGED <<eventVars, g_log_buffer, g_timestamp_fn, g_min_level,
                   mock_timestamp, delivered, flush_ret, lastWrite, lastFlush,
                   logOp, written, owner, lcalls, pw>>

\* osusat_ring_buffer_pow2_init()
Pow2Init(cap) ==
    /\ rcalls > 0
    /\ rcalls' = rcalls - 1
    /\ LET p == osusat_ring_buffer_pow2_init(pw, cap)
       IN  /\ pw' = p.rb
           /\ ringHist' = IF p.ok
                          THEN [ringHist EXCEPT
                                   !.pow2 = [in |-> <<>>, out |-> <<>>]]
                          ELSE ringHist
           /\ lastRing' = [op |-> "init", store |-> "pow2", arg |-> cap,
                           ok |-> p.ok, out |-> 0, out0 |-> 0, before |-> pw]
    /\ UNCHANGED <<eventVars, rb, g_log_buffer, g_timestamp_fn, g_min_level,
                   mock_timestamp, delivered, flush_ret, lastWrite, lastFlush,
                   logOp, written, owner, lcalls>>

\* osusat_ring_buffer_pow2_push() on a handle that init() has set up.
Pow2Push(byte) ==
    /\ rcalls > 0
    /\ pw # UninitPow2
    /\ rcalls' = rcalls - 1
    /\ LET p == osusat_ring_buffer_pow2_push(pw, byte)
       IN  /\ pw' = p.rb
           /\ ringHist' = IF p.ok
                          THEN [ringHist EXCEPT !.pow2.in = Append(@, byte)]
                          ELSE ringHist
           /\ lastRing' = [op |-> "push", store |-> "pow2", arg |-> byte,
                           ok |-> p.ok, out |-> 0, out0 |-> 0, before |-> pw]
    /\ UNCHANGED <<eventVars, rb, g_log_buffer, g_timestamp_fn, g_min_level,
                   mock_timestamp, delivered, flush_ret, lastWrite, lastFlush,
                   logOp, written, owner, lcalls>>

\* osusat_ring_buffer_pow2_pop(rb, &out) on a handle that init() has set up.
Pow2Pop(out0) ==
    /\ rcalls > 0
    /\ pw # UninitPow2
    /\ rcalls' = rcalls - 1
    /\ LET p == osusat_ring_buffer_pow2_pop(pw)
       IN  /\ pw' = p.rb
           /\ ringHist' = IF p.ok
                          THEN [ringHist EXCEPT !.pow2.out = Append(@, p.out)]
                          ELSE ringHist
           /\ lastRing' = [op |-> "pop", store |-> "pow2", arg |-> 0,
                           ok |-> p.ok,
                           out |-> IF p.ok THEN p.out ELSE out0,
                           out0 |-> out0, before |-> pw]
    /\ UNCHANGED <<eventVars, rb, g_log_buffer, g_timestamp_fn, g_min_level,
                   mock_timestamp, delivered, flush_ret, lastWrite, lastFlush,
                   logOp, written, owner, lcalls>>

\* ----------------------------------------------------------------- logger

OSUSAT_SLOG_DEBUG == 0
OSUSAT_SLOG_INFO == 1
OSUSAT_SLOG_WARN == 2
OSUSAT_SLOG_ERROR == 3
OSUSAT_SLOG_CRITICAL == 4
TEST_COMPONENT_A == 16
TEST_COMPONENT_B == 32

\* Byte k of x, least significant first (the packed header on a little-endian
\* target).
ByteOf(x, k) == (x \div (256 ^ k)) % 256

\* The four bytes of a uint32_t.
U32(x) == <<ByteOf(x, 0), ByteOf(x, 1), ByteOf(x, 2), ByteOf(x, 3)>>

\* (const uint8_t *)&entry: the ten bytes of the packed osusat_slog_entry_t.
HeaderBytes(e) ==
    <<U32(e.timestamp_ms)[1], U32(e.timestamp_ms)[2],
      U32(e.timestamp_ms)[3], U32(e.timestamp_ms)[4],
      e.level % 256, e.component_id % 256,
      ByteOf(e.line, 0), ByteOf(e.line, 1),
      ByteOf(e.message_len, 0), ByteOf(e.message_len, 1)>>

\* The entry a sequence of ten header bytes reads back as; its timestamp_ms
\* is kept as the four bytes of the uint32_t, which any byte values make.
EntryOf(b) ==
    [timestamp_ms |-> <<b[1], b[2], b[3], b[4]>>,
     level |-> b[5], component_id |-> b[6],
     line |-> b[7] + 256 * b[8],
     message_len |-> b[9] + 256 * b[10]]

ZeroEntry ==
    [timestamp_ms |-> 0, level |-> 0, component_id |-> 0, line |-> 0,
     message_len |-> 0]

SizeofEntry == Len(HeaderBytes(ZeroEntry))

\* Mutant: write() records whatever the level, when a buffer is bound.
FilteredUnboundOnly(level) == g_log_buffer = NULL

\* Mutant: write() also discards a record at the minimum level itself.
FilteredInclusive(level) == level <= g_min_level \/ g_log_buffer = NULL

\* slog.c:54, the filter of write().
Filtered(level) == level < g_min_level \/ g_log_buffer = NULL

\* Mutant: write() keeps the length vsnprintf returned.
StoredLenNoCut(fm) == fm.len

\* vsnprintf's result is [len, text]: len < 0 is a formatting error, else text
\* is the whole formatted string.  The length write() keeps:
StoredLen(fm) ==
    IF fm.len >= MAX_LOG_MESSAGE_LEN THEN MAX_LOG_MESSAGE_LEN - 1 ELSE fm.len

\* message[0..len]: the characters vsnprintf stored and its terminator.
MessageBytes(fm) == SubSeq(fm.text, 1, StoredLen(fm)) \o <<0>>

\* Mutant: the header is built without asking the timestamp source.
BuildEntryNoClock(level, component_id, line, fm) ==
    [timestamp_ms |-> 0,
     level |-> level, component_id |-> component_id, line |-> line,
     message_len |-> StoredLen(fm) % 65536]

\* slog.c:76, the header of the record.
BuildEntry(level, component_id, line, fm) ==
    [timestamp_ms |-> IF g_timestamp_fn # NULL THEN mock_timestamp ELSE 0,
     level |-> level, component_id |-> component_id, line |-> line,
     message_len |-> StoredLen(fm) % 65536]

\* The two push loops of write(): both stop at the first push that fails.
RECURSIVE PushAll(_, _)
PushAll(r, bytes) ==
    IF bytes = <<>> THEN r
    ELSE LET p == osusat_ring_buffer_push(r, Head(bytes))
         IN  IF p.ok THEN PushAll(p.rb, Tail(bytes)) ELSE r

\* The header loop of flush(): pops sizeof(entry) bytes, stopping at the
\* first pop that fails.  [ok, bytes, rb]
RECURSIVE PopHeader(_, _)
PopHeader(r, bytes) ==
    IF Len(bytes) = SizeofEntry THEN [ok |-> TRUE, bytes |-> bytes, rb |-> r]
    ELSE LET p == osusat_ring_buffer_pop(r)
         IN  IF p.ok THEN PopHeader(p.rb, Append(bytes, p.out))
                     ELSE [ok |-> FALSE, bytes |-> bytes, rb |-> r]

\* Mutant: the message loop trusts message_len alone.
MessageIndexOutAlways(msg_idx) == FALSE

\* slog.c:144, the bound of the message loop of flush().
MessageIndexOut(msg_idx) == msg_idx >= MAX_LOG_MESSAGE_LEN

\* message[msg_idx] = byte.  A message value is [chars, at, pops]: the chars
\* of the array, and as history the indexes written at (an index outside the
\* array lands in other memory, not in chars) and the bytes popped.
Store(message, msg_idx, byte) ==
    [message EXCEPT !.chars = IF msg_idx \in DOMAIN @
                              THEN [@ EXCEPT ![msg_idx] = byte] ELSE @,
                    !.at = @ \cup {msg_idx}]

\* The message loop of flush(), from msg_idx on.  [message, rb]
RECURSIVE ReadMessage(_, _, _, _)
ReadMessage(r, message, msg_idx, message_len) ==
    IF msg_idx > message_len \/ MessageIndexOut(msg_idx)
    THEN [message |-> message, rb |-> r]
    ELSE LET p == osusat_ring_buffer_pop(r)
             popped == [message EXCEPT !.pops = @ + 1]
         IN  IF ~p.ok
             THEN [message |-> Store(message, msg_idx, 0), rb |-> r]
             ELSE IF p.out = 0
             THEN [message |-> Store(popped, msg_idx, 0), rb |-> p.rb]
             ELSE ReadMessage(p.rb, Store(popped, msg_idx, p.out),
                              msg_idx + 1, message_len)

\* char message[MAX_LOG_MESSAGE_LEN], as declared.
UninitMessage ==
    [chars |-> [k \in 0..(MAX_LOG_MESSAGE_LEN - 1) |-> UNINIT],
     at |-> {}, pops |-> 0]

\* Mutant: flush stops once less than a header and a byte is left.
LoopDoneShort(r) == osusat_ring_buffer_size(r) <= SizeofEntry

\* slog.c:121, the test that ends the while loop of flush().
LoopDone(r) == osusat_ring_buffer_empty(r)

\* The while loop of flush(): [rb, out, count], out the callback's
\* invocations and count the value flush returns.
RECURSIVE FlushLoop(_, _, _)
FlushLoop(r, out, count) ==
    IF LoopDone(r) THEN [rb |-> r, out |-> out, count |-> count]
    ELSE LET h == PopHeader(r, <<>>)
         IN  IF ~h.ok THEN [rb |-> h.rb, out |-> out, count |-> count]
             ELSE LET entry == EntryOf(h.bytes)
                      m == ReadMessage(h.rb, UninitMessage, 0,
                                       entry.message_len)
                      message == Store(m.message, MAX_LOG_MESSAGE_LEN - 1, 0)
                  IN  FlushLoop(m.rb,
                          Append(out, [entry |-> entry,
                                       message |-> message.chars,
                                       at |-> message.at,
                                       pops |-> message.pops]),
                          count + 1)

\* osusat_slog_pending_count()
osusat_slog_pending_count ==
    IF g_log_buffer = NULL THEN 0 ELSE osusat_ring_buffer_size(rb) \div 40

NoWrite ==
    [level |-> 0, component_id |-> 0, line |-> 0, fm |-> [len |-> 0, text |-> <<>>],
     min_level |-> 0, buf |-> NULL, timestamp_fn |-> NULL, now |-> 0,
     bytes |-> <<>>, before |-> rb]

\* History: what the caller of write() handed over (the level, component and
\* line, the formatted text) and what was in force at the call (the minimum
\* level, the bound buffer, the timestamp source and its time).
Handed(level, component_id, line, fm) ==
    [level |-> level, component_id |-> component_id, line |-> line,
     len |-> fm.len, text |-> fm.text, min_level |-> g_min_level,
     buf |-> g_log_buffer, timestamp_fn |-> g_timestamp_fn,
     now |-> mock_timestamp, raw |-> FALSE]

\* History: bytes the caller pushed into the ring buffer itself.
Raw(bytes) ==
    [level |-> 0, component_id |-> 0, line |-> 0, len |-> Len(bytes),
     text |-> bytes, min_level |-> 0, buf |-> RB, timestamp_fn |-> NULL,
     now |-> 0, raw |-> TRUE]

\* The caller sets up its ring buffer again.
RingBufferInit(overwrite) ==
    /\ lcalls > 0
    /\ lcalls' = lcalls - 1
    /\ rb' = osusat_ring_buffer_init(LogCapacity, overwrite)
    /\ logOp' = "rb_init"
    /\ written' = <<>>
    /\ lastFlush' = [lastFlush EXCEPT !.seen = 0]
    /\ UNCHANGED <<g_log_buffer, g_timestamp_fn, g_min_level, mock_timestamp,
                   delivered, flush_ret, lastWrite>>
    /\ UNCHANGED <<eventVars, owner, ringVars>>

\* The caller pushes bytes of its own into the ring buffer, one
\* osusat_ring_buffer_push() each, stopping when one fails.
CallerPush(bytes) ==
    /\ lcalls > 0
    /\ lcalls' = lcalls - 1
    /\ rb' = PushAll(rb, bytes)
    /\ written' = Append(written, Raw(bytes))
    /\ logOp' = "push"
    /\ UNCHANGED <<g_log_buffer, g_timestamp_fn, g_min_level, mock_timestamp,
                   delivered, flush_ret, lastWrite, lastFlush>>
    /\ UNCHANGED <<eventVars, owner, ringVars>>

\* osusat_slog_init()
SlogInit(log_buf, timestamp_fn, min_level) ==
    /\ lcalls > 0
    /\ lcalls' = lcalls - 1
    /\ g_log_buffer' = log_buf
    /\ g_timestamp_fn' = timestamp_fn
    /\ g_min_level' = min_level
    /\ logOp' = "init"
    /\ UNCHANGED <<rb, mock_timestamp, delivered, flush_ret, lastWrite,
                   lastFlush, written>>
    /\ UNCHANGED <<eventVars, owner, ringVars>>

\* Mutant: changing the level also drops what the store holds.
ChangeMinLevelClears(min_level) ==
    /\ lcalls > 0
    /\ lcalls' = lcalls - 1
    /\ g_min_level' = min_level
    /\ rb' = [rb EXCEPT !.tail = rb.head]
    /\ logOp' = "level"
    /\ UNCHANGED <<g_log_buffer, g_timestamp_fn, mock_timestamp,
                   delivered, flush_ret, lastWrite, lastFlush, written>>
    /\ UNCHANGED <<eventVars, owner, ringVars>>

\* osusat_slog_change_min_log_level()
ChangeMinLevel(min_level) ==
    /\ lcalls > 0
    /\ lcalls' = lcalls - 1
    /\ g_min_level' = min_level
    /\ logOp' = "level"
    /\ UNCHANGED <<rb, g_log_buffer, g_timestamp_fn, mock_timestamp,
                   delivered, flush_ret, lastWrite, lastFlush, written>>
    /\ UNCHANGED <<eventVars, owner, ringVars>>

\* The timestamp source moves on.
SetTimestamp(t) ==
    /\ lcalls > 0
    /\ lcalls' = lcalls - 1
    /\ mock_timestamp' = t
    /\ logOp' = "time"
    /\ UNCHANGED <<rb, g_log_buffer, g_timestamp_fn, g_min_level,
                   delivered, flush_ret, lastWrite, lastFlush, written>>
    /\ UNCHANGED <<eventVars, owner, ringVars>>

\* The bytes write() hands to push, in order: none when it returns early.
Serialised(level, component_id, line, fm) ==
    IF Filtered(level) \/ fm.len < 0
    THEN <<>>
    ELSE HeaderBytes(BuildEntry(level, component_id, line, fm))
             \o MessageBytes(fm)

\* osusat_slog_write_internal(), fm being what vsnprintf makes of fmt and
\* the arguments.
Write(level, component_id, line, fm) ==
    /\ lcalls > 0
    /\ lcalls' = lcalls - 1
    /\ rb' = PushAll(rb, Serialised(level, component_id, line, fm))
    /\ lastWrite' = [level |-> level, component_id |-> component_id,
                     line |-> line, fm |-> fm, min_level |-> g_min_level,
                     buf |-> g_log_buffer, timestamp_fn |-> g_timestamp_fn,
                     now |-> mock_timestamp,
                     bytes |-> Serialised(level, component_id, line, fm),
                     before |-> rb]
    /\ written' = Append(written, Handed(level, component_id, line, fm))
    /\ logOp' = "write"
    /\ UNCHANGED <<g_log_buffer, g_timestamp_fn, g_min_level, mock_timestamp,
                   delivered, flush_ret, lastFlush>>
    /\ UNCHANGED <<eventVars, owner, ringVars>>

\* Mutant: flush runs without a callback as long as a buffer is bound.
FlushRefusedUnboundOnly(flush_fn) == g_log_buffer = NULL

\* slog.c:112, the precondition of flush().
FlushRefused(flush_fn) == g_log_buffer = NULL \/ flush_fn = NULL

\* osusat_slog_flush(), the callback only recording what it is handed.
\* History: lastFlush.seen is the number of write() calls a refused flush
\* left in place, handed on to the flush that follows it.
Flush(flush_fn) ==
    /\ lcalls > 0
    /\ lcalls' = lcalls - 1
    /\ LET res == IF FlushRefused(flush_fn)
                  THEN [rb |-> rb, out |-> <<>>, count |-> 0]
                  ELSE FlushLoop(rb, <<>>, 0)
       IN  /\ rb' = res.rb
           /\ delivered' = res.out
           /\ flush_ret' = res.count
    /\ written' = IF FlushRefused(flush_fn) THEN written ELSE <<>>
    /\ lastFlush' = [flush_fn |-> flush_fn, buf |-> g_log_buffer,
                     before |-> rb, written |-> written,
                     seen |-> IF FlushRefused(flush_fn) THEN Len(written)
                              ELSE IF lastFlush.flush_fn = NULL
                                      \/ lastFlush.buf = NULL
                              THEN lastFlush.seen ELSE 0]
    /\ logOp' = "flush"
    /\ UNCHANGED <<g_log_buffer, g_timestamp_fn, g_min_level, mock_timestamp,
                   lastWrite>>
    /\ UNCHANGED <<eventVars, owner, ringVars>>

\* slog.c's static initialisers, as arguments of osusat_slog_init().
StaticInit == <<NULL, NULL, OSUSAT_SLOG_DEBUG>>

\* The logger once set up: a ring buffer the caller has initialised, and
\* the globals as osusat_slog_init() (or the static initialisers) set them.
InitLogger(cap, overwrites, inits, budget) ==
    /\ \E o \in overwrites : rb = osusat_ring_buffer_init(cap, o)
    /\ \E a \in inits :
           /\ g_log_buffer = a[1]
           /\ g_timestamp_fn = a[2]
           /\ g_min_level = a[3]
    /\ mock_timestamp = 0
    /\ delivered = <<>>
    /\ flush_ret = 0
    /\ lastWrite = NoWrite
    /\ lastFlush = [flush_fn |-> NULL, buf |-> NULL, before |-> rb,
                    written |-> <<>>, seen |-> 0]
    /\ logOp = "none"
    /\ written = <<>>
    /\ owner = [k \in 0..(LogCapacity - 1) |-> <<>>]
    /\ lcalls = budget

\* No ring buffer call is made on its own: the pow2 handle is declared and
\* left alone.
RingIdle ==
    /\ pw = UninitPow2
    /\ ringHist = NoRingHist
    /\ lastRing = NoRing
    /\ rcalls = 0

InitLogWith(cap, overwrites, inits, budget) ==
    InitLogger(cap, overwrites, inits, budget) /\ RingIdle

InitLog(overwrites, inits, budget) ==
    InitLogWith(LogCapacity, overwrites, inits, budget)

\* ------------------------------------------------- logger, step by step

\* write() and flush() as frames on the call stack, one step per statement
\* that the interrupt mask or the byte store can tell apart, so that an
\* interrupt service routine can come in between any two of them.

\* Everything of the event bus but the interrupt mask, the stack and the
\* interrupt count; everything of the logger the steps leave alone.
busRest == <<busVars, storage, callerBuf, histVars, lastInit, lastOp, calls,
             hcalls>>
logRest == <<g_log_buffer, g_timestamp_fn, g_min_level, mock_timestamp,
             lastWrite, lastFlush, logOp, written, ringVars>>

\* History: mask0 is PRIMASK at the call, rid names the call.
WriteFrame(ctx, level, component_id, line, fm) ==
    [op |-> "write", pc |-> "w_entry", ctx |-> ctx, saved |-> 0,
     mask0 |-> primask, rid |-> <<lcalls, isrs>>,
     level |-> level, component_id |-> component_id, line |-> line,
     fm |-> fm, bytes |-> <<>>, i |-> 0]

FlushFrame(ctx, flush_fn) ==
    [op |-> "flush", pc |-> "f_entry", ctx |-> ctx, saved |-> 0,
     mask0 |-> primask, flush_fn |-> flush_fn, count |-> 0,
     header |-> <<>>, entry |-> ZeroEntry, message |-> UninitMessage,
     msg_idx |-> 0]

\* slog.c:24, uint32_t primask = __get_PRIMASK();
SlogSavePrimask(f) == [f EXCEPT !.saved = primask]

\* Mutant: cpsid i left out, the mask stays as it is.
SlogMaskedPrimaskOff == primask

\* slog.c:25, cpsid i.
SlogMaskedPrimask == 1

\* Mutant: EXIT_CRITICAL enables interrupts whatever the saved state.
SlogRestoredEnable(f) == 0

\* Mutant: EXIT_CRITICAL leaves PRIMASK as it is.
SlogRestoredNot(f) == primask

\* slog.c:28, __set_PRIMASK(primask).
SlogRestoredPrimask(f) == f.saved

\* slog.c:54-81: the level filter, vsnprintf, the truncation and the header.
WriteEntry ==
    /\ At("w_entry")
    /\ stack' = SetTop(
           IF Filtered(Top.level) \/ Top.fm.len < 0
           THEN [Top EXCEPT !.pc = "w_ret"]
           ELSE [Top EXCEPT !.pc = "w_mrs",
                            !.bytes = HeaderBytes(BuildEntry(Top.level,
                                          Top.component_id, Top.line, Top.fm))
                                      \o MessageBytes(Top.fm)])
    /\ UNCHANGED <<busRest, logRest, primask, isrs, rb, delivered, flush_ret,
                   owner, lcalls>>

\* slog.c:83, ENTER_CRITICAL: read PRIMASK
WriteSaveMask ==
    /\ At("w_mrs")
    /\ stack' = SetTop([SlogSavePrimask(Top) EXCEPT !.pc = "w_cpsid"])
    /\ UNCHANGED <<busRest, logRest, primask, isrs, rb, delivered, flush_ret,
                   owner, lcalls>>

\* slog.c:83, ENTER_CRITICAL: cpsid i
WriteMask ==
    /\ At("w_cpsid")
    /\ primask' = SlogMaskedPrimask
    /\ stack' = SetTop([Top EXCEPT !.pc = "w_push"])
    /\ UNCHANGED <<busRest, logRest, isrs, rb, delivered, flush_ret, owner,
                   lcalls>>

\* slog.c:88-102, one turn of the two push loops: byte i of the header, the
\* message and its terminator.  History: owner records whose byte it is.
WritePush ==
    /\ At("w_push")
    /\ LET p == osusat_ring_buffer_push(rb, Top.bytes[Top.i + 1])
       IN  IF p.ok
           THEN /\ rb' = p.rb
                /\ owner' = [owner EXCEPT ![rb.head] =
                                [rid |-> Top.rid, ctx |-> Top.ctx,
                                 k |-> Top.i + 1, n |-> Len(Top.bytes)]]
                /\ stack' = SetTop([Top EXCEPT
                                       !.i = @ + 1,
                                       !.pc = IF Top.i + 1 = Len(Top.bytes)
                                              THEN "w_exit" ELSE "w_push"])
           ELSE /\ stack' = SetTop([Top EXCEPT !.pc = "w_exit_fail"])
                /\ UNCHANGED <<rb, owner>>
    /\ UNCHANGED <<busRest, logRest, primask, isrs, delivered, flush_ret,
                   lcalls>>

\* slog.c:91 and slog.c:99, EXIT_CRITICAL before the return on a failed push
WriteExitFailed ==
    /\ At("w_exit_fail")
    /\ primask' = SlogRestoredPrimask(Top)
    /\ stack' = SetTop([Top EXCEPT !.pc = "w_ret"])
    /\ UNCHANGED <<busRest, logRest, isrs, rb, delivered, flush_ret, owner,
                   lcalls>>

\* slog.c:104, EXIT_CRITICAL
WriteExit ==
    /\ At("w_exit")
    /\ primask' = SlogRestoredPrimask(Top)
    /\ stack' = SetTop([Top EXCEPT !.pc = "w_ret"])
    /\ UNCHANGED <<busRest, logRest, isrs, rb, delivered, flush_ret, owner,
                   lcalls>>

WriteReturn ==
    /\ At("w_ret")
    /\ stack' = Pop
    /\ UNCHANGED <<busRest, logRest, primask, isrs, rb, delivered, flush_ret,
                   owner, lcalls>>

\* slog.c:112-116
FlushEntry ==
    /\ At("f_entry")
    /\ stack' = SetTop([Top EXCEPT !.count = 0,
                                   !.pc = IF FlushRefused(Top.flush_fn)
                                          THEN "f_ret" ELSE "f_mrs"])
    /\ UNCHANGED <<busRest, logRest, primask, isrs, rb, delivered, flush_ret,
                   owner, lcalls>>

\* slog.c:119, ENTER_CRITICAL: read PRIMASK
FlushSaveMask ==
    /\ At("f_mrs")
    /\ stack' = SetTop([SlogSavePrimask(Top) EXCEPT !.pc = "f_cpsid"])
    /\ UNCHANGED <<busRest, logRest, primask, isrs, rb, delivered, flush_ret,
                   owner, lcalls>>

\* slog.c:119, ENTER_CRITICAL: cpsid i
FlushMask ==
    /\ At("f_cpsid")
    /\ primask' = SlogMaskedPrimask
    /\ stack' = SetTop([Top EXCEPT !.pc = "f_empty"])
    /\ UNCHANGED <<busRest, logRest, isrs, rb, delivered, flush_ret, owner,
                   lcalls>>

\* slog.c:121-130
FlushEmpty ==
    /\ At("f_empty")
    /\ stack' = SetTop(IF LoopDone(rb)
                          THEN [Top EXCEPT !.pc = "f_exit_empty"]
                          ELSE [Top EXCEPT !.pc = "f_header",
                                           !.header = <<>>,
                                           !.message = UninitMessage,
                                           !.msg_idx = 0])
    /\ UNCHANGED <<busRest, logRest, primask, isrs, rb, delivered, flush_ret,
                   owner, lcalls>>

\* slog.c:132-141, one turn of the header loop
FlushPopHeader ==
    /\ At("f_header")
    /\ LET p == osusat_ring_buffer_pop(rb)
           header == Append(Top.header, p.out)
       IN  /\ rb' = p.rb
           /\ stack' = SetTop(
                  IF ~p.ok THEN [Top EXCEPT !.pc = "f_exit_fail"]
                  ELSE IF Len(header) < SizeofEntry
                  THEN [Top EXCEPT !.header = header]
                  ELSE [Top EXCEPT !.header = header,
                                   !.entry = EntryOf(header),
                                   !.msg_idx = 0, !.pc = "f_msg"])
    /\ UNCHANGED <<busRest, logRest, primask, isrs, delivered, flush_ret,
                   owner, lcalls>>

\* slog.c:143-157, one turn of the message loop
FlushPopMessage ==
    /\ At("f_msg")
    /\ IF Top.msg_idx > Top.entry.message_len \/ MessageIndexOut(Top.msg_idx)
       THEN /\ stack' = SetTop([Top EXCEPT !.pc = "f_exit"])
            /\ rb' = rb
       ELSE LET p == osusat_ring_buffer_pop(rb)
                popped == [Top.message EXCEPT !.pops = @ + 1]
            IN  /\ rb' = p.rb
                /\ stack' = SetTop(
                       IF ~p.ok
                       THEN [Top EXCEPT
                                !.message = Store(Top.message, Top.msg_idx, 0),
                                !.pc = "f_exit"]
                       ELSE IF p.out = 0
                       THEN [Top EXCEPT
                                !.message = Store(popped, Top.msg_idx, 0),
                                !.pc = "f_exit"]
                       ELSE [Top EXCEPT
                                !.message = Store(popped, Top.msg_idx, p.out),
                                !.msg_idx = @ + 1])
    /\ UNCHANGED <<busRest, logRest, primask, isrs, delivered, flush_ret,
                   owner, lcalls>>

\* slog.c:124, EXIT_CRITICAL before the break on an empty store
FlushExitEmpty ==
    /\ At("f_exit_empty")
    /\ primask' = SlogRestoredPrimask(Top)
    /\ stack' = SetTop([Top EXCEPT !.pc = "f_ret"])
    /\ UNCHANGED <<busRest, logRest, isrs, rb, delivered, flush_ret, owner,
                   lcalls>>

\* slog.c:134, EXIT_CRITICAL before the return on a failed header pop
FlushExitFailed ==
    /\ At("f_exit_fail")
    /\ primask' = SlogRestoredPrimask(Top)
    /\ stack' = SetTop([Top EXCEPT !.pc = "f_ret"])
    /\ UNCHANGED <<busRest, logRest, isrs, rb, delivered, flush_ret, owner,
                   lcalls>>

\* slog.c:159, EXIT_CRITICAL
FlushExit ==
    /\ At("f_exit")
    /\ primask' = SlogRestoredPrimask(Top)
    /\ stack' = SetTop([Top EXCEPT !.pc = "f_call"])
    /\ UNCHANGED <<busRest, logRest, isrs, rb, delivered, flush_ret, owner,
                   lcalls>>

\* slog.c:161-165: the forced terminator, the callback, count++
FlushCallback ==
    /\ At("f_call")
    /\ LET message == Store(Top.message, MAX_LOG_MESSAGE_LEN - 1, 0)
       IN  /\ delivered' = Append(delivered,
                               [entry |-> Top.entry,
                                message |-> message.chars,
                                at |-> message.at, pops |-> message.pops])
           /\ stack' = SetTop([Top EXCEPT !.message = message,
                                          !.count = @ + 1, !.pc = "f_mrs"])
    /\ UNCHANGED <<busRest, logRest, primask, isrs, rb, flush_ret, owner,
                   lcalls>>

\* slog.c:113, slog.c:135, slog.c:168
FlushReturn ==
    /\ At("f_ret")
    /\ flush_ret' = Top.count
    /\ stack' = Pop
    /\ UNCHANGED <<busRest, logRest, primask, isrs, rb, delivered, owner,
                   lcalls>>

\* write() called from the main loop.
SlogWrite(level, component_id, line, fm) ==
    /\ stack = <<>>
    /\ lcalls > 0
    /\ stack' = <<WriteFrame("main", level, component_id, line, fm)>>
    /\ lcalls' = lcalls - 1
    /\ UNCHANGED <<busRest, logRest, primask, isrs, rb, delivered, flush_ret,
                   owner>>

\* flush() called from the main loop.
SlogFlush(flush_fn) ==
    /\ stack = <<>>
    /\ lcalls > 0
    /\ stack' = <<FlushFrame("main", flush_fn)>>
    /\ lcalls' = lcalls - 1
    /\ delivered' = <<>>
    /\ UNCHANGED <<busRest, logRest, primask, isrs, rb, flush_ret, owner>>

\* An interrupt service routine that logs preempts whatever is running; it
\* is taken only while PRIMASK is clear.
InterruptWrite(level, component_id, line, fm) ==
    /\ primask = 0
    /\ InFlight
    /\ isrs < MaxLogIsr
    /\ stack' = Append(stack, WriteFrame("isr", level, component_id, line, fm))
    /\ isrs' = isrs + 1
    /\ UNCHANGED <<busRest, logRest, primask, rb, delivered, flush_ret, owner,
                   lcalls>>

\* An interrupt service routine that flushes.
InterruptFlush(flush_fn) ==
    /\ primask = 0
    /\ InFlight
    /\ isrs < MaxLogIsr
    /\ stack' = Append(stack, FlushFrame("isr", flush_fn))
    /\ isrs' = isrs + 1
    /\ UNCHANGED <<busRest, logRest, primask, rb, delivered, flush_ret, owner,
                   lcalls>>

\* publish() called from the main loop, drawing on the budget of the logger
\* calls.
StepPublish(id, payload, len) ==
    /\ stack = <<>>
    /\ lcalls > 0
    /\ stack' = <<Frame("publish", "main", id, payload, len)>>
    /\ lcalls' = lcalls - 1
    /\ UNCHANGED <<busRest, logRest, primask, isrs, rb, delivered, flush_ret,
                   owner>>

\* The main loop masks or unmasks interrupts between two calls.
CallerMask(m) ==
    /\ stack = <<>>
    /\ primask # m
    /\ primask' = m
    /\ UNCHANGED <<busRest, logRest, stack, isrs, rb, delivered, flush_ret,
                   owner, lcalls>>

WriteStep ==
    \/ WriteEntry \/ WriteSaveMask \/ WriteMask \/ WritePush
    \/ WriteExitFailed \/ WriteExit \/ WriteReturn

FlushStep ==
    \/ FlushEntry \/ FlushSaveMask \/ FlushMask \/ FlushEmpty
    \/ FlushPopHeader \/ FlushPopMessage \/ FlushExitEmpty \/ FlushExitFailed
    \/ FlushExit \/ FlushCallback \/ FlushReturn

\* -------------------------------------------------------- specifications

PublishStep ==
    \/ PublishEntry \/ PublishSaveMask \/ PublishMask \/ PublishNextHead
    \/ PublishCompare \/ PublishWrite \/ PublishAdvance \/ PublishExit
    \/ PublishReturn

ProcessStep ==
    \/ ProcessEntry \/ ProcessLoop \/ ProcessScan \/ HandlerReturn
    \/ ProcessAdvance \/ ProcessReturn

\* init(): null storage, zero capacity, and every capacity up to MaxCapacity.
InitArgs ==
    {<<NULL, MaxCapacity>>, <<STORAGE, 0>>}
        \cup {<<STORAGE, c>> : c \in 1..MaxCapacity}

\* init() called again: null storage, and the largest capacity.
ReinitArgs == {<<NULL, MaxCapacity>>, <<STORAGE, MaxCapacity>>}

\* subscribe(): two handlers on one id, one on the other, and a null handler.
SubArgs == {<<1, 1>>, <<1, 2>>, <<2, 2>>, <<1, NULL>>}

\* publish(): every id, with one payload byte.
IdArgs == {<<id, BUF, 1>> : id \in EventIds}

\* publish(): null and non-null payloads with len 0, below, at and above
\* OSUSAT_EVENT_MAX_PAYLOAD.
PayloadArgs ==
    {<<1, NULL, 0>>, <<2, NULL, 1>>, <<2, BUF, 0>>, <<1, BUF, 1>>,
     <<2, BUF, OSUSAT_EVENT_MAX_PAYLOAD>>,
     <<1, BUF, OSUSAT_EVENT_MAX_PAYLOAD + 1>>}

\* The contents callers give their payload buffer.
Buffers ==
    {[k \in PayloadIdx |-> 1], [k \in PayloadIdx |-> 2]}

\* The main loop and its handlers, no interrupts: every id, handler and
\* capacity, one payload.
Next ==
    \/ \E a \in ReinitArgs : BusInit(a[1], a[2])
    \/ \E a \in SubArgs : Subscribe(a[1], a[2])
    \/ \E a \in IdArgs : Publish(a[1], a[2], a[3])
    \/ Process
    \/ \E a \in {<<1, 1>>, <<2, 2>>} : HandlerSubscribe(a[1], a[2])
    \/ \E a \in IdArgs : HandlerPublish(a[1], a[2], a[3])
    \/ PublishStep
    \/ ProcessStep

Init == InitWith(InitArgs, MaxCalls) /\ InitLog({TRUE}, {StaticInit}, 0)

Spec == Init /\ [][Next]_vars

\* The main loop, no interrupts: every payload shape, the caller rewriting
\* its buffer between calls, one subscriber table.
NextData ==
    \/ \E a \in {<<STORAGE, MaxCapacity>>} : BusInit(a[1], a[2])
    \/ \E a \in {<<1, 1>>, <<2, 1>>} : Subscribe(a[1], a[2])
    \/ \E a \in PayloadArgs : Publish(a[1], a[2], a[3])
    \/ Process
    \/ \E b \in Buffers : CallerWrite(b)
    \/ PublishStep
    \/ ProcessStep

SpecData ==
    /\ InitWith({<<STORAGE, 2>>, <<STORAGE, MaxCapacity>>}, MaxDataCalls)
    /\ InitLog({TRUE}, {StaticInit}, 0)
    /\ [][NextData]_vars

\* The main loop preempted by interrupt service routines that publish.
NextIsr ==
    \/ \E a \in {<<1, 1>>, <<2, 2>>} : Subscribe(a[1], a[2])
    \/ \E a \in IdArgs : Publish(a[1], a[2], a[3])
    \/ Process
    \* the interrupt handler publishes its own event id, the main loop either id
    \/ \E a \in {<<2, BUF, 1>>} : Interrupt(a[1], a[2], a[3])
    \/ PublishStep
    \/ ProcessStep

SpecIsr ==
    /\ InitWith({<<STORAGE, MaxCapacity>>}, MaxIsrCalls)
    /\ InitLog({TRUE}, {StaticInit}, 0)
    /\ [][NextIsr]_vars

\* The main loop reusing queue slots: payloads of one byte and of
\* OSUSAT_EVENT_MAX_PAYLOAD bytes, init() called again on the same storage.
NextLeak ==
    \/ \E a \in {<<STORAGE, 2>>} : BusInit(a[1], a[2])
    \/ \E a \in {<<1, 1>>} : Subscribe(a[1], a[2])
    \/ \E a \in {<<1, BUF, 1>>, <<1, BUF, OSUSAT_EVENT_MAX_PAYLOAD>>} :
           Publish(a[1], a[2], a[3])
    \/ Process
    \/ PublishStep
    \/ ProcessStep

SpecLeak ==
    /\ InitWith({<<STORAGE, 2>>}, MaxLeakCalls)
    /\ InitLog({TRUE}, {StaticInit}, 0)
    /\ [][NextLeak]_vars

\* What vsnprintf makes of a format and its arguments: a string of n
\* characters, or a formatting error.
Text(n) == [len |-> n, text |-> [k \in 1..n |-> 1 + (k % 2)]]
FormatError == [len |-> -1, text |-> <<>>]

\* write(): every level; messages empty, short, of MAX_LOG_MESSAGE_LEN - 1
\* characters and longer; a formatting error.
WriteArgs ==
    {<<OSUSAT_SLOG_DEBUG, TEST_COMPONENT_A, 1, Text(1)>>,
     <<OSUSAT_SLOG_INFO, TEST_COMPONENT_B, 300, Text(0)>>,
     <<OSUSAT_SLOG_WARN, TEST_COMPONENT_A, 2, Text(MAX_LOG_MESSAGE_LEN - 1)>>,
     <<OSUSAT_SLOG_ERROR, TEST_COMPONENT_B, 3, Text(MAX_LOG_MESSAGE_LEN)>>,
     <<OSUSAT_SLOG_CRITICAL, TEST_COMPONENT_A, 4,
       Text(MAX_LOG_MESSAGE_LEN + 1)>>,
     <<OSUSAT_SLOG_WARN, TEST_COMPONENT_B, 5, FormatError>>}

\* osusat_slog_init(): bound and unbound, with and without a timestamp
\* source.
SlogInitArgs ==
    {<<RB, MOCK, OSUSAT_SLOG_DEBUG>>, <<RB, MOCK, OSUSAT_SLOG_WARN>>,
     <<RB, NULL, OSUSAT_SLOG_INFO>>, <<NULL, MOCK, OSUSAT_SLOG_DEBUG>>}

\* Bytes that are no record: a header of all ones, whose message_len is
\* 65535, and more non-null bytes than the message array holds.
Garbage ==
    [k \in 1..(SizeofEntry + MAX_LOG_MESSAGE_LEN + 1) |->
        IF k <= SizeofEntry THEN 255 ELSE 65]

\* The logger driven from the main loop, the event bus idle.
NextLog ==
    \/ \E o \in BOOLEAN : RingBufferInit(o)
    \/ \E b \in {Garbage} : CallerPush(b)
    \/ \E a \in SlogInitArgs : SlogInit(a[1], a[2], a[3])
    \/ \E l \in {OSUSAT_SLOG_DEBUG, OSUSAT_SLOG_ERROR} : ChangeMinLevel(l)
    \/ \E t \in {1000, 70000} : SetTimestamp(t)
    \/ \E a \in WriteArgs : Write(a[1], a[2], a[3], a[4])
    \/ \E f \in {NULL, CALLBACK} : Flush(f)

SpecLog ==
    /\ InitWith({<<STORAGE, MaxCapacity>>}, 0)
    /\ InitLog(BOOLEAN, SlogInitArgs \cup {StaticInit}, MaxLogCalls)
    /\ [][NextLog]_vars

\* The main loop writing and flushing, masked or not, and publishing, while
\* interrupt service routines write and flush.
StepWriteArgs ==
    {<<OSUSAT_SLOG_INFO, TEST_COMPONENT_B, 300, Text(0)>>,
     <<OSUSAT_SLOG_WARN, TEST_COMPONENT_A, 2, Text(1)>>,
     <<OSUSAT_SLOG_DEBUG, TEST_COMPONENT_A, 1, Text(1)>>,
     <<OSUSAT_SLOG_WARN, TEST_COMPONENT_B, 5, FormatError>>}

NextStep ==
    \/ \E a \in StepWriteArgs : SlogWrite(a[1], a[2], a[3], a[4])
    \/ \E f \in {NULL, CALLBACK} : SlogFlush(f)
    \/ \E a \in StepWriteArgs : InterruptWrite(a[1], a[2], a[3], a[4])
    \/ InterruptFlush(CALLBACK)
    \/ \E m \in {0, 1} : CallerMask(m)
    \/ \E a \in {<<1, BUF, 1>>} : StepPublish(a[1], a[2], a[3])
    \/ WriteStep
    \/ FlushStep
    \/ PublishStep

SpecStep ==
    /\ InitWith({<<STORAGE, 2>>}, 0)
    /\ InitLogWith(StepCapacity, BOOLEAN, {<<RB, MOCK, OSUSAT_SLOG_INFO>>},
                   MaxStepCalls)
    /\ [][NextStep]_vars

\* The caller of the two ring buffers: a generic store of every capacity
\* from 1 to MaxRingCap, with and without overwrite, and a power-of-two
\* store set up with capacities that are and are not powers of two.
RingBytes == {17, 34}
Pow2Caps == {0, 1, 2, 3, 4, 8, 10}

NextRing ==
    \/ \E b \in RingBytes : RingPush(b)
    \/ RingPop(170)
    \/ \E c \in Pow2Caps : Pow2Init(c)
    \/ \E b \in RingBytes : Pow2Push(b)
    \/ Pow2Pop(170)

SpecRing ==
    /\ InitWith({<<STORAGE, MaxCapacity>>}, 0)
    /\ \E c \in 1..MaxRingCap :
           InitLogger(c, BOOLEAN, {StaticInit}, 0)
    /\ pw = UninitPow2
    /\ ringHist = NoRingHist
    /\ lastRing = NoRing
    /\ rcalls = MaxRingCalls
    /\ [][NextRing]_vars

\* One call made on the generic store and on the power-of-two store alike.
\* History: lastRing holds the result of the generic store in ok and out,
\* of the power-of-two store in ok2 and out2.
Both(op, arg, out0, g, p) ==
    /\ rcalls > 0
    /\ rcalls' = rcalls - 1
    /\ rb' = g.rb
    /\ pw' = p.rb
    /\ lastRing' = [op |-> op, store |-> "both", arg |-> arg, ok |-> g.ok,
                    out |-> IF g.ok THEN g.out ELSE out0, out0 |-> out0,
                    before |-> rb, ok2 |-> p.ok,
                    out2 |-> IF p.ok THEN p.out ELSE out0]
    /\ UNCHANGED <<eventVars, g_log_buffer, g_timestamp_fn, g_min_level,
                   mock_timestamp, delivered, flush_ret, lastWrite, lastFlush,
                   logOp, written, owner, lcalls, ringHist>>

BothPush(byte) ==
    LET g == osusat_ring_buffer_push(rb, byte)
        p == osusat_ring_buffer_pow2_push(pw, byte)
    IN  Both("push", byte, 0, [ok |-> g.ok, out |-> 0, rb |-> g.rb],
             [ok |-> p.ok, out |-> 0, rb |-> p.rb])

BothPop(out0) ==
    Both("pop", 0, out0, osusat_ring_buffer_pop(rb),
         osusat_ring_buffer_pow2_pop(pw))

BothPeek(out0) ==
    LET g == osusat_ring_buffer_peek(rb)
        p == osusat_ring_buffer_pow2_peek(pw)
    IN  Both("peek", 0, out0, [ok |-> g.ok, out |-> g.out, rb |-> rb],
             [ok |-> p.ok, out |-> p.out, rb |-> pw])

BothEmpty ==
    Both("empty", 0, 0,
         [ok |-> osusat_ring_buffer_empty(rb), out |-> 0, rb |-> rb],
         [ok |-> osusat_ring_buffer_pow2_empty(pw), out |-> 0, rb |-> pw])

BothFull ==
    Both("full", 0, 0,
         [ok |-> osusat_ring_buffer_full(rb), out |-> 0, rb |-> rb],
         [ok |-> osusat_ring_buffer_pow2_full(pw), out |-> 0, rb |-> pw])

\* The power-of-two capacities the two stores are set up with.
EquivCaps == {1, 2, 4, 8}

\* The two stores, set up with the same power-of-two capacity, the generic
\* one without overwrite, and given the same calls.
NextEquiv ==
    \/ \E b \in RingBytes : BothPush(b)
    \/ BothPop(170)
    \/ BothPeek(170)
    \/ BothEmpty
    \/ BothFull

SpecEquiv ==
    /\ InitWith({<<STORAGE, MaxCapacity>>}, 0)
    /\ \E c \in EquivCaps :
           /\ InitLogger(c, {FALSE}, {StaticInit}, 0)
           /\ pw = osusat_ring_buffer_pow2_init(UninitPow2, c).rb
    /\ ringHist = NoRingHist
    /\ lastRing = NoRing
    /\ rcalls = MaxEquivCalls
    /\ [][NextEquiv]_vars

\* What vsnprintf makes of "%c%c" with the arguments 1 and 0: two
\* characters, the second a zero byte.
ZeroText == [len |-> 2, text |-> <<1, 0>>]

\* write(): messages empty, of one character, and with a zero byte inside.
FrameWriteArgs ==
    {<<OSUSAT_SLOG_DEBUG, TEST_COMPONENT_A, 1, Text(0)>>,
     <<OSUSAT_SLOG_INFO, TEST_COMPONENT_B, 300, Text(1)>>,
     <<OSUSAT_SLOG_WARN, TEST_COMPONENT_A, 2, ZeroText>>}

\* The main loop writing records and flushing them, the store in overwrite
\* mode and never overflowing.
NextFrame ==
    \/ \E a \in FrameWriteArgs : Write(a[1], a[2], a[3], a[4])
    \/ Flush(CALLBACK)

SpecFrame ==
    /\ InitWith({<<STORAGE, MaxCapacity>>}, 0)
    /\ InitLogWith(4 * (SizeofEntry + MAX_LOG_MESSAGE_LEN) + 1, {TRUE},
                   {<<RB, NULL, OSUSAT_SLOG_DEBUG>>}, MaxFrameCalls)
    /\ [][NextFrame]_vars

\* The timestamp source moves on by one, at any moment, a call in progress
\* or not.
Tick ==
    /\ mock_timestamp < MaxTicks
    /\ mock_timestamp' = mock_timestamp + 1
    /\ UNCHANGED <<eventVars, rb, g_log_buffer, g_timestamp_fn, g_min_level,
                   delivered, flush_ret, lastWrite, lastFlush, logOp, written,
                   owner, lcalls, ringVars>>

\* write(): an empty message at the minimum level, and a message below it.
ClockWriteArgs ==
    {<<OSUSAT_SLOG_INFO, TEST_COMPONENT_A, 1, Text(0)>>,
     <<OSUSAT_SLOG_DEBUG, TEST_COMPONENT_B, 2, Text(1)>>}

\* The main loop writing, statement by statement, preempted by interrupt
\* service routines that write, while the timestamp source moves on.
NextClock ==
    \/ \E a \in ClockWriteArgs : SlogWrite(a[1], a[2], a[3], a[4])
    \/ \E a \in ClockWriteArgs : InterruptWrite(a[1], a[2], a[3], a[4])
    \/ Tick
    \/ WriteStep

SpecClock ==
    /\ InitWith({<<STORAGE, 2>>}, 0)
    /\ InitLog(BOOLEAN, {<<RB, MOCK, OSUSAT_SLOG_INFO>>}, MaxClockCalls)
    /\ [][NextClock]_vars

\* ---------------------------------------------------------------- claims

Live == (head - tail + capacity) % capacity
ProcessFrames == {k \in 1..Len(stack) : stack[k].op = "process"}
IsPrefix(a, b) == Len(a) <= Len(b) /\ SubSeq(b, 1, Len(a)) = a

\* C1: when process() returns with no publish interleaved, every event whose
\* publish succeeded has been handed exactly once to every subscription with
\* its id, to no other subscription, and no event is left pending.
C1_Delivery == At("r_ret") => pending = <<>> /\ hlog = expected

C1_Witness ==
    /\ At("r_ret")
    /\ Len(hlog) >= 2
    /\ \E i \in 0..(sub_count - 1) : \A k \in 1..Len(hlog) : hlog[k].sub # i

\* C2: within one process() call the handlers run in the order the events
\* were published and, for one event, in subscriber-table order; a
\* subscription in the table when the event is dequeued has received it,
\* whether it was added before or after the publish.
C2_Order ==
    /\ \A k \in 1..(Len(hlog) - 1) :
          /\ hlog[k].seq >= 0
          /\ \/ hlog[k].seq < hlog[k + 1].seq
             \/ hlog[k].seq = hlog[k + 1].seq /\ hlog[k].sub < hlog[k + 1].sub
    /\ At("r_adv") =>
          /\ pending # <<>>
          /\ Head(pending).slot = tail
          /\ \A j \in 1..Len(pending) : Head(pending).seq <= pending[j].seq
          /\ \A i \in 0..(sub_count - 1) :
                subs[i].id = Head(pending).id =>
                   \E k \in 1..Len(hlog) : /\ hlog[k].sub = i
                                           /\ hlog[k].seq = Head(pending).seq

\* Two events published before any subscription, then handlers 1 and 2
\* subscribed to one id each: handler 1 runs, then handler 2.
C2_Witness ==
    /\ At("r_ret")
    /\ Len(hlog) = 2
    /\ hlog[1].handler = 1 /\ hlog[2].handler = 2
    /\ hlog[1].id # hlog[2].id
    /\ hlog[1].nsub = 0 /\ hlog[2].nsub = 0

\* C3: a publish() that finds the queue full returns false and leaves head,
\* tail and every slot of the storage as they were.
WasFull(snap) == (snap[1] + 1) % capacity = snap[2]

C3_FullRejected ==
    (At("p_ret") /\ Top.snap # <<>> /\ WasFull(Top.snap)) =>
        /\ Top.success = FALSE
        /\ <<head, tail, storage>> = Top.snap

C3_Witness ==
    /\ At("p_ret")
    /\ Top.snap # <<>>
    /\ WasFull(Top.snap)
    /\ capacity = MaxCapacity
    /\ Len(pending) = capacity - 1
    /\ Top.success = FALSE

\* C4: on an initialised bus head and tail stay below capacity and the events
\* published and not yet dequeued number (head - tail) mod capacity, at most
\* capacity - 1.
C4_Bounded ==
    queue # NULL =>
        /\ capacity >= 1
        /\ head \in 0..(capacity - 1)
        /\ tail \in 0..(capacity - 1)
        /\ Len(pending) = Live
        /\ Len(pending) <= capacity - 1

C4_Witness ==
    /\ queue # NULL
    /\ capacity >= 2
    /\ Len(pending) = capacity - 1
    /\ head < tail
    /\ isrs > 0

\* C5: subscribe() fails exactly when the table is full or the handler is
\* null, and then changes nothing; otherwise it appends the entry at index
\* sub_count and returns true.  sub_count never exceeds the table size.
C5_Subscribe ==
    [][/\ sub_count' <= OSUSAT_EVENT_MAX_SUBSCRIBERS
       /\ lastOp' # lastOp =>
            /\ lastOp'.ret = FALSE <=>
                  (sub_count >= OSUSAT_EVENT_MAX_SUBSCRIBERS
                      \/ lastOp'.handler = NULL)
            /\ lastOp'.ret = FALSE => subs' = subs /\ sub_count' = sub_count
            /\ lastOp'.ret = TRUE =>
                  /\ sub_count' = sub_count + 1
                  /\ subs'[sub_count] =
                        [id |-> lastOp'.id, handler |-> lastOp'.handler]
                  /\ \A i \in DOMAIN subs :
                        i # sub_count => subs'[i] = subs[i]]_vars

\* A full table holding a duplicate id, and a further subscribe refused.
C5_Witness ==
    /\ sub_count = OSUSAT_EVENT_MAX_SUBSCRIBERS
    /\ subs[0].id = subs[1].id
    /\ lastOp # <<>>
    /\ lastOp.ret = FALSE
    /\ lastOp.handler # NULL

\* C6: with process() preempted by publishing interrupts, the slot a handler
\* reads is the one it was handed until it returns, the handlers run are
\* exactly those the dequeued events call for, with the id and payload
\* published, and every event published and not yet dequeued is counted
\* between tail and head.
C6_Preemption ==
    /\ IsPrefix(expected, hlog)
    /\ queue # NULL => Len(pending) = Live
    /\ \A k \in ProcessFrames :
          /\ stack[k].pc = "r_handler" =>
                /\ storage[tail] = stack[k].snap
                /\ pending # <<>>
                /\ IsPrefix(hlog, expected \o Due(Head(pending)))
          /\ stack[k].pc = "r_adv" =>
                pending # <<>> /\ hlog = expected \o Due(Head(pending))
          /\ stack[k].pc \in {"r_loop", "r_ret"} => hlog = expected

\* An interrupt's publish has succeeded while a handler is running.
C6_Witness ==
    /\ Depth = 2
    /\ stack[1].pc = "r_handler"
    /\ Top.ctx = "isr" /\ Top.pc = "p_ret" /\ Top.success
    /\ Len(pending) = 2

\* C7: publishes that preempt one another each get a slot of their own: the
\* events published and not yet dequeued sit in consecutive slots from tail,
\* in the order head advanced, each slot holding what its publish wrote, and
\* a publish returning true has its event among them.
SlotHolds(p) ==
    /\ storage[p.slot].id = p.id
    /\ storage[p.slot].payload_len = p.payload_len
    /\ \A j \in 1..p.payload_len : storage[p.slot].payload[j] = p.data[j]

C7_Producers ==
    /\ \A k \in 1..Len(pending) :
          /\ pending[k].slot = (tail + k - 1) % capacity
          /\ SlotHolds(pending[k])
          /\ \A j \in 1..(k - 1) : pending[j].seq < pending[k].seq
    /\ queue # NULL => Len(pending) = Live
    /\ (At("p_ret") /\ Top.success) =>
          \E k \in 1..Len(pending) :
             pending[k].slot = Top.i /\ pending[k].id = Top.id

\* A publish in the main loop returns true after an interrupt published
\* while it was running.
C7_Witness ==
    /\ Depth = 1
    /\ Top.ctx = "main" /\ Top.pc = "p_ret" /\ Top.success
    /\ npub - Top.npub0 = 2
    /\ Len(pending) = 2

\* C8: after init() with null storage or zero capacity, until the next
\* init(), no step changes the queue indices, the binding or the storage, no
\* handler runs, and every publish() returns false.
Unset == lastInit[1] = NULL \/ lastInit[2] = 0

C8_Unset ==
    [][(Unset /\ lastInit' = lastInit) =>
          /\ queue' = NULL /\ capacity' = 0
          /\ head' = 0 /\ tail' = 0
          /\ storage' = storage
          /\ hlog' = <<>> /\ pending' = <<>>
          /\ (stack' # <<>> /\ stack'[Len(stack')].pc = "p_ret") =>
                ~stack'[Len(stack')].success]_vars

\* A subscriber is registered, the bus was initialised with zero capacity and
\* a publish returns.
C8_Witness ==
    /\ lastInit = <<STORAGE, 0>>
    /\ sub_count >= 1
    /\ At("p_ret")
    /\ ~Top.success

\* C9: every event published and not yet dequeued has payload_len =
\* min(len, OSUSAT_EVENT_MAX_PAYLOAD) and, in its first payload_len bytes,
\* the bytes the caller's buffer held when publish() was called (zeros for a
\* null payload or len 0); a handler is handed exactly these.
SlotHoldsPayload(p) ==
    /\ storage[p.slot].payload_len = Min(p.len, OSUSAT_EVENT_MAX_PAYLOAD)
    /\ \A j \in 1..storage[p.slot].payload_len :
          storage[p.slot].payload[j] =
             IF p.ptr = NULL \/ p.len = 0 THEN 0 ELSE p.buf[j]

C10_FilteredWrite ==
    [][(logOp' = "write" /\ lcalls' # lcalls
          /\ (lastWrite'.level < g_min_level \/ g_log_buffer = NULL))
       => /\ rb' = rb
          /\ rb'.head = rb.head /\ rb'.tail = rb.tail
          /\ rb'.buffer = rb.buffer
          /\ osusat_ring_buffer_size(rb') = osusat_ring_buffer_size(rb)]_vars

\* A write below the minimum level has been made on a bound store that
\* holds bytes.
C10_Witness ==
    /\ logOp = "write"
    /\ lastWrite.buf = RB
    /\ lastWrite.level < lastWrite.min_level
    /\ lastWrite.fm.len > 0
    /\ osusat_ring_buffer_size(rb) > 0
    /\ rb = lastWrite.before

\* The string a callback reads from the message array: the characters before
\* the first null.
CStr(message) ==
    LET nul == CHOOSE k \in DOMAIN message :
                   message[k] = 0 /\ \A j \in 0..(k - 1) : message[j] # 0
    IN  [j \in 1..nul |-> message[j - 1]]

\* A text cut to the MAX_LOG_MESSAGE_LEN - 1 characters a record can carry.
Cut(text) ==
    SubSeq(text, 1, Min(Len(text), MAX_LOG_MESSAGE_LEN - 1))

\* A flush() made with a callback while a buffer is bound.
FlushRuns == logOp = "flush" /\ lastFlush.flush_fn # NULL /\ lastFlush.buf # NULL

\* A write() call made at or above the minimum level in force.
AtLevel(w) == w.level >= w.min_level

\* A write() call made with a buffer bound and a text that formatted.
Regular(w) == ~w.raw /\ w.buf # NULL /\ w.len >= 0

\* Of the write() calls flushed last, those at or above the minimum level.
Recorded == SelectSeq(lastFlush.written, AtLevel)

\* Every write() call flushed last was a regular one.
AllRegular == \A i \in 1..Len(lastFlush.written) : Regular(lastFlush.written[i])

\* C11: one record written to an empty store and then flushed, no other
\* write in between, gives exactly one callback invocation, with the level
\* and component of the write, the timestamp the source returned at the
\* write (0 without a source) and the message cut to MAX_LOG_MESSAGE_LEN - 1
\* characters; flush returns 1.
C11_RoundTrip ==
    (FlushRuns /\ AllRegular /\ Len(Recorded) = 1) =>
        LET w == Recorded[1]
        IN  /\ flush_ret = 1
            /\ Len(delivered) = 1
            /\ delivered[1].entry.level = w.level
            /\ delivered[1].entry.component_id = w.component_id
            /\ delivered[1].entry.timestamp_ms =
                   U32(IF w.timestamp_fn = NULL THEN 0 ELSE w.now)
            /\ CStr(delivered[1].message) = Cut(w.text)

\* A record with a text longer than fits, stamped by the timestamp source,
\* has been written alone and flushed.
C11_Witness ==
    /\ FlushRuns
    /\ AllRegular
    /\ Len(Recorded) = 1
    /\ Len(Recorded[1].text) >= MAX_LOG_MESSAGE_LEN
    /\ Recorded[1].timestamp_fn # NULL
    /\ Recorded[1].now > 65535
    /\ flush_ret = 1

\* The bytes a record takes in the store: header, message, terminator.
RecordSize(w) == SizeofEntry + Len(Cut(w.text)) + 1

RECURSIVE TotalSize(_)
TotalSize(ws) ==
    IF ws = <<>> THEN 0 ELSE RecordSize(Head(ws)) + TotalSize(Tail(ws))

\* The store holds LogCapacity - 1 bytes before a push meets a full buffer.
Fits(ws) == TotalSize(ws) <= LogCapacity - 1

\* The callback invocation a handed-over record calls for.
Matches(d, w) ==
    /\ d.entry.level = w.level
    /\ d.entry.component_id = w.component_id
    /\ d.entry.line = w.line
    /\ d.entry.timestamp_ms = U32(IF w.timestamp_fn = NULL THEN 0 ELSE w.now)
    /\ d.entry.message_len = Len(Cut(w.text))
    /\ CStr(d.message) = Cut(w.text)

\* C12: when the records of the write() calls made since the store was last
\* empty fit in it together, flush returns the number of those calls whose
\* level was at or above the minimum in force at the call, and hands their
\* records to the callback in write order.
C12_FlushInOrder ==
    (FlushRuns /\ AllRegular /\ Fits(Recorded)) =>
        /\ flush_ret = Len(Recorded)
        /\ Len(delivered) = Len(Recorded)
        /\ \A i \in 1..Len(delivered) : Matches(delivered[i], Recorded[i])

\* With the minimum level above DEBUG, a discarded write and two accepted
\* ones have been flushed.
C12_Witness ==
    /\ FlushRuns
    /\ AllRegular
    /\ Len(lastFlush.written) = 3
    /\ ~AtLevel(lastFlush.written[1])
    /\ Len(Recorded) = 2
    /\ Fits(Recorded)
    /\ flush_ret = 2

\* C13: when the records written to an overwrite-mode store since it was
\* last empty take more bytes together than its capacity, the following
\* flush returns strictly fewer records than were written.
C13_FewerAfterOverflow ==
    (FlushRuns /\ AllRegular /\ lastFlush.before.overwrite
       /\ TotalSize(Recorded) > LogCapacity)
    => flush_ret < Len(Recorded)

\* C14: whatever the store holds, torn records and headers with a garbage
\* message_len included, each iteration of flush writes the message array
\* only at indexes 0..MAX_LOG_MESSAGE_LEN - 1, pops at most
\* MAX_LOG_MESSAGE_LEN message bytes, and hands the callback a message with
\* a null inside the array.
C14_BoundedMessage ==
    FlushRuns =>
        \A i \in 1..Len(delivered) :
            /\ delivered[i].at \subseteq 0..(MAX_LOG_MESSAGE_LEN - 1)
            /\ delivered[i].pops <= MAX_LOG_MESSAGE_LEN
            /\ \E k \in 0..(MAX_LOG_MESSAGE_LEN - 1) :
                   delivered[i].message[k] = 0

\* A flush has read a header whose message_len is beyond the array, with no
\* null after it: the message loop stopped at the end of the array.
C14_Witness ==
    /\ FlushRuns
    /\ \E i \in 1..Len(delivered) :
           /\ delivered[i].entry.message_len >= MAX_LOG_MESSAGE_LEN
           /\ delivered[i].pops = MAX_LOG_MESSAGE_LEN
           /\ \A k \in 0..(MAX_LOG_MESSAGE_LEN - 2) :
                  delivered[i].message[k] \notin {0, UNINIT}

\* C15: every header write() serialises has message_len at most
\* MAX_LOG_MESSAGE_LEN - 1, equal to the number of message bytes pushed
\* before the terminating null; a text longer than that is stored as its
\* first MAX_LOG_MESSAGE_LEN - 1 characters.
C15_MessageLen ==
    (logOp = "write" /\ lastWrite.bytes # <<>>) =>
        LET b == lastWrite.bytes
            e == EntryOf(SubSeq(b, 1, SizeofEntry))
            msg == SubSeq(b, SizeofEntry + 1, Len(b))
        IN  /\ e.message_len <= MAX_LOG_MESSAGE_LEN - 1
            /\ Len(msg) = e.message_len + 1
            /\ msg[Len(msg)] = 0
            /\ \A k \in 1..(Len(msg) - 1) : msg[k] # 0
            /\ lastWrite.fm.len > MAX_LOG_MESSAGE_LEN - 1 =>
                   /\ e.message_len = MAX_LOG_MESSAGE_LEN - 1
                   /\ SubSeq(msg, 1, MAX_LOG_MESSAGE_LEN - 1) =
                          SubSeq(lastWrite.fm.text, 1, MAX_LOG_MESSAGE_LEN - 1)

\* A text longer than the message array has been written to the store.
C15_Witness ==
    /\ logOp = "write"
    /\ lastWrite.fm.len > MAX_LOG_MESSAGE_LEN
    /\ Len(lastWrite.bytes) = SizeofEntry + MAX_LOG_MESSAGE_LEN
    /\ osusat_ring_buffer_size(rb) >= Len(lastWrite.bytes)

\* C19: when flush returns, no write having run during it, the store is
\* empty and the count returned is the number of callback invocations the
\* call made (none, and 0, on an empty store).
C19_Drained ==
    FlushRuns =>
        /\ osusat_ring_buffer_empty(rb)
        /\ osusat_ring_buffer_size(rb) = 0
        /\ flush_ret = Len(delivered)
        /\ osusat_ring_buffer_empty(lastFlush.before) =>
               flush_ret = 0 /\ delivered = <<>>

\* A flush has drained a store that held more than two headers of bytes,
\* some of them pushed by the caller and no record, in two iterations.
C19_Witness ==
    /\ FlushRuns
    /\ osusat_ring_buffer_size(lastFlush.before) > 2 * SizeofEntry
    /\ \E i \in 1..Len(lastFlush.written) : lastFlush.written[i].raw
    /\ flush_ret = 2
    /\ osusat_ring_buffer_empty(rb)

\* A flush() refused for want of a callback or of a bound buffer.
FlushNoop ==
    logOp = "flush" /\ (lastFlush.flush_fn = NULL \/ lastFlush.buf = NULL)

\* C20: flush with a null callback, or with no buffer bound, returns 0 and
\* leaves the store as it was; the records buffered then are handed to the
\* callback by the flush with a callback that comes after it.
C20_RefusedFlush ==
    /\ FlushNoop =>
           /\ flush_ret = 0
           /\ delivered = <<>>
           /\ rb = lastFlush.before
    /\ (FlushRuns /\ lastFlush.seen > 0 /\ AllRegular /\ Fits(Recorded)) =>
           /\ flush_ret = Len(Recorded)
           /\ \A i \in 1..Len(Recorded) :
                  i <= Len(delivered) /\ Matches(delivered[i], Recorded[i])

\* A flush with a callback has delivered a record that a flush without one
\* had left in the store.
C20_Witness ==
    /\ FlushRuns
    /\ lastFlush.seen > 0
    /\ AllRegular
    /\ Len(Recorded) > 0
    /\ AtLevel(lastFlush.written[1])
    /\ flush_ret = Len(Recorded)
    /\ osusat_ring_buffer_size(lastFlush.before) > SizeofEntry

\* The cells of the store that hold bytes, oldest first, and for each the
\* write() call that pushed it.
LiveCells ==
    [j \in 1..osusat_ring_buffer_size(rb) |->
        owner[(rb.tail + j - 1) % rb.capacity]]

\* A frame of write() that has pushed some of its record and not yet all.
Serialising(f) == f.op = "write" /\ f.pc = "w_push" /\ f.i > 0

\* A frame of flush() about to pop.
Popping(f) == f.op = "flush" /\ f.pc \in {"f_header", "f_msg"}

\* C16: with write() and flush() preempted by interrupt service routines
\* that write and flush, the bytes of the store are runs of one record each:
\* the byte after byte k of a record is byte k + 1 of the same record, or
\* the first byte of another record (then, in overwrite mode, the record
\* before it is complete, terminator included); the write() that is in the
\* middle of its record is never preempted, and no flush() pops while a
\* write() is in the middle of its record.
C16_RecordsContiguous ==
    /\ \A j \in 1..(Len(LiveCells) - 1) :
           LET a == LiveCells[j]
               b == LiveCells[j + 1]
           IN  \/ a.rid = b.rid /\ b.k = a.k + 1
               \/ a.rid # b.rid /\ b.k = 1 /\ (rb.overwrite => a.k = a.n)
    /\ \A j \in 1..(Len(stack) - 1) : ~Serialising(stack[j])
    /\ \A j \in 1..Len(stack) : \A k \in 1..Len(stack) :
           ~(Popping(stack[j]) /\ Serialising(stack[k]))

\* A write() of the main loop, preempted by a write() from an interrupt
\* before its critical section, has pushed its whole record behind the whole
\* record of the interrupt.
C16_Witness ==
    /\ At("w_exit")
    /\ Top.ctx = "main"
    /\ Top.i = Len(Top.bytes)
    /\ \E j \in 1..Len(LiveCells) :
           LiveCells[j].ctx = "isr" /\ LiveCells[j].k = LiveCells[j].n

\* C17: when flush() is about to call the callback, PRIMASK is back at the
\* value saved on entering the critical section of that turn of the loop;
\* and flush() tests the store for empty and pops from it only with
\* interrupts masked, never preempted.
C17_CallbackOutside ==
    /\ At("f_call") => primask = Top.saved
    /\ \A j \in 1..Len(stack) :
           (stack[j].op = "flush"
                /\ stack[j].pc \in {"f_empty", "f_header", "f_msg"})
               => j = Len(stack) /\ primask = 1

\* flush(), called with interrupts enabled, is about to hand a record it
\* popped whole to the callback, interrupts enabled again.
C17_Witness ==
    /\ At("f_call")
    /\ Top.saved = 0
    /\ primask = 0
    /\ Top.message.pops > 0
    /\ Top.entry.level = OSUSAT_SLOG_INFO

\* C18: publish(), write() and flush() return with PRIMASK at the value it
\* had when they were called, on every path: masked when called masked,
\* enabled when called enabled.
C18_MaskRestored ==
    (Depth > 0 /\ Top.pc \in {"p_ret", "w_ret", "f_ret"})
        => primask = Top.mask0

\* flush(), called with interrupts masked, returns through the failed pop
\* of a header, interrupts still masked.
C18_Witness ==
    /\ At("f_ret")
    /\ Top.mask0 = 1
    /\ primask = 1
    /\ Len(Top.header) > 0
    /\ Len(Top.header) < SizeofEntry

\* C21: pending_count() is 0 when the store holds nothing, and greater than
\* 0 right after a write() that stored a record.
C21_PendingCount ==
    /\ osusat_ring_buffer_empty(rb) => osusat_slog_pending_count = 0
    /\ (logOp = "write" /\ lastWrite.bytes # <<>>
            /\ rb.head # lastWrite.before.head)
           => osusat_slog_pending_count > 0

\* C22: a call of change_min_log_level() leaves the store as it is, and the
\* write() that follows it on a bound store that can take a byte, with a
\* message that formats, stores bytes exactly when its level is at or above
\* the minimum just set.
C22_LevelChange ==
    [][/\ logOp' = "level" => rb' = rb
       /\ (logOp = "level" /\ logOp' = "write" /\ g_log_buffer # NULL
               /\ lastWrite'.fm.len >= 0
               /\ (rb.overwrite \/ ~osusat_ring_buffer_full(rb)))
              => (rb'.head # rb.head <=> lastWrite'.level >= g_min_level)
      ]_vars

\* A write() below the minimum was dropped; after the minimum was lowered a
\* write() of the same level is stored behind the record already there.
C22_Witness ==
    /\ logOp = "write"
    /\ Len(written) = 3
    /\ Regular(written[1]) /\ AtLevel(written[1])
    /\ Regular(written[2]) /\ ~AtLevel(written[2])
    /\ Regular(written[3]) /\ AtLevel(written[3])
    /\ written[3].level = written[2].level
    /\ written[3].min_level < written[2].min_level
    /\ osusat_ring_buffer_size(rb)
           = RecordSize(written[1]) + RecordSize(written[3])

\* C23: head changes only in the step of publish() that advances it, taken
\* with interrupts masked; tail changes only in a step of process(); no step
\* of publish() changes tail, no step of process() changes head, and
\* subscribe() and the calls themselves change neither.
C23_IndexOwnership ==
    [][/\ head' # head
              => (At("p_head") /\ Top.op = "publish" /\ primask = 1)
       /\ tail' # tail => (At("r_adv") /\ Top.op = "process")
       /\ (Depth > 0 /\ Top.op = "publish") => tail' = tail
       /\ (Depth > 0 /\ Top.op = "process") => head' = head
       /\ stack = <<>> => (head' = head /\ tail' = tail)
      ]_vars

\* An interrupt has published while process() is in the middle of its
\* drain, after process() advanced tail.
C23_Witness ==
    /\ Depth = 2
    /\ stack[1].op = "process"
    /\ stack[1].pc \in {"r_scan", "r_handler", "r_adv"}
    /\ Top.op = "publish" /\ Top.ctx = "isr"
    /\ Top.pc = "p_exit" /\ Top.success
    /\ tail # 0
    /\ sub_count > 0

\* C24 as stated: the tail of the byte store changes only in a step of
\* flush(); the head changes only in a push of write(), taken with
\* interrupts masked.
C24_IndexOwnership ==
    [][/\ rb'.tail # rb.tail => (Depth > 0 /\ Top.op = "flush")
       /\ rb'.head # rb.head => (At("w_push") /\ primask = 1)
      ]_vars

\* The push of write() that finds the store full in overwrite mode.
EvictingPush ==
    At("w_push") /\ rb.overwrite /\ osusat_ring_buffer_full(rb)

\* C24, amended: the tail of the byte store changes only in a pop of
\* flush(), or in a push of write() that finds the store full in overwrite
\* mode and evicts the oldest byte; both are taken with interrupts masked.
\* Without overwrite no step of write() changes the tail.  The head changes
\* only in a push of write(), taken with interrupts masked.
C24_IndexOwnershipEvict ==
    [][/\ rb'.tail # rb.tail
              => /\ primask = 1
                 /\ \/ Depth > 0 /\ Top.op = "flush"
                          /\ Top.pc \in {"f_header", "f_msg"}
                    \/ EvictingPush
       /\ EvictingPush => rb'.tail = (rb.tail + 1) % rb.capacity
       /\ rb'.head # rb.head => (At("w_push") /\ primask = 1)
      ]_vars

\* The first call of the main loop is a write() in the middle of its
\* pushes; an interrupt came before them, and the tail has moved: no
\* flush() has popped, the pushes of this write() evicted.
C24_Witness ==
    /\ Depth = 1
    /\ Top.op = "write" /\ Top.pc = "w_push" /\ Top.i > 0
    /\ lcalls = MaxStepCalls - 1
    /\ isrs = 1
    /\ rb.overwrite
    /\ rb.tail # 0
    /\ osusat_ring_buffer_full(rb)

\* ----------------------------------------------------- process(), liveness

\* The drain loop with handlers that publish as often as they are called.
\* The steps are those of publish() and process() above without their
\* histories, which would grow without end.

\* publish() called by a running handler, any number of times.
LiveHandlerPublish(id, payload, len) ==
    /\ At("r_handler")
    /\ stack' = Append(stack, Frame("publish", "handler", id, payload, len))
    /\ UNCHANGED <<logVars, busVars, storage, primask, histVars, frameVars>>

\* bus.head = next_head; success = true;
LivePublishAdvance ==
    /\ At("p_head")
    /\ head' = Top.next_head
    /\ stack' = SetTop([Top EXCEPT !.pc = "p_exit", !.success = TRUE])
    /\ UNCHANGED logVars
    /\ UNCHANGED <<subs, sub_count, queue, capacity, tail, storage, primask,
                   histVars, frameVars>>

\* i < bus.sub_count; the id test; the handler call; i++
LiveProcessScan ==
    /\ At("r_scan")
    /\ stack' = SetTop(IF Top.i < sub_count
                          THEN IF SubMatches(Top.i)
                                  THEN [Top EXCEPT !.pc = "r_handler"]
                                  ELSE [Top EXCEPT !.i = Top.i + 1]
                          ELSE [Top EXCEPT !.pc = "r_adv"])
    /\ UNCHANGED <<logVars, busVars, storage, primask, histVars, frameVars>>

\* bus.tail = (bus.tail + 1) % bus.capacity;
LiveProcessAdvance ==
    /\ At("r_adv")
    /\ tail' \in NextTail
    /\ stack' = SetTop([Top EXCEPT !.pc = "r_loop"])
    /\ UNCHANGED logVars
    /\ UNCHANGED <<subs, sub_count, queue, capacity, head, storage, primask,
                   histVars, frameVars>>

\* A step of the call that is running.
LiveStep ==
    \/ PublishEntry \/ PublishSaveMask \/ PublishMask \/ PublishNextHead
    \/ PublishCompare \/ PublishWrite \/ LivePublishAdvance \/ PublishExit
    \/ PublishReturn
    \/ ProcessEntry \/ ProcessLoop \/ LiveProcessScan \/ HandlerReturn
    \/ LiveProcessAdvance \/ ProcessReturn

NextLive ==
    \/ \E a \in {<<1, 1>>, <<2, 2>>} : Subscribe(a[1], a[2])
    \/ \E a \in IdArgs : Publish(a[1], a[2], a[3])
    \/ Process
    \/ \E a \in IdArgs : LiveHandlerPublish(a[1], a[2], a[3])
    \/ LiveStep

\* The processor keeps running the call in flight, and every handler
\* returns: it does not publish for ever within one invocation.
SpecLive ==
    /\ InitWith({<<STORAGE, 2>>, <<STORAGE, MaxCapacity>>}, MaxLiveCalls)
    /\ InitLog({TRUE}, {StaticInit}, 0)
    /\ [][NextLive]_vars
    /\ WF_vars(LiveStep)
    /\ SF_vars(HandlerReturn)

\* C25: every call of process() returns.
C25_ProcessReturns ==
    (Depth > 0 /\ stack[1].op = "process") ~> (stack = <<>>)

\* ------------------------------------------------------------ ring buffers

\* The bytes a ring buffer holds, oldest first: the cells from tail up to
\* head, wrapping at capacity.
StoreBytes(r) ==
    [i \in 1..((r.head - r.tail + r.capacity) % r.capacity) |->
        r.buffer[(r.tail + i - 1) % r.capacity]]

\* C26: on a store that never evicts (the generic store without overwrite,
\* the power-of-two store) the bytes popped so far followed by the bytes
\* still stored are exactly the bytes pushed, in push order, so pop returns
\* every byte once and in order; pop on an empty store returns false and
\* changes neither the store nor the caller's output byte.
C26_Fifo ==
    /\ ~rb.overwrite =>
           ringHist.generic.in = ringHist.generic.out \o StoreBytes(rb)
    /\ pw # UninitPow2 =>
           ringHist.pow2.in = ringHist.pow2.out \o StoreBytes(pw)
    /\ (lastRing.op = "pop" /\ lastRing.store = "generic") =>
           /\ lastRing.ok <=> ~osusat_ring_buffer_empty(lastRing.before)
           /\ lastRing.ok =>
                  lastRing.out = lastRing.before.buffer[lastRing.before.tail]
           /\ ~lastRing.ok =>
                  (rb = lastRing.before /\ lastRing.out = lastRing.out0)
    /\ (lastRing.op = "pop" /\ lastRing.store = "pow2") =>
           /\ lastRing.ok <=> ~osusat_ring_buffer_pow2_empty(lastRing.before)
           /\ lastRing.ok =>
                  lastRing.out = lastRing.before.buffer[lastRing.before.tail]
           /\ ~lastRing.ok =>
                  (pw = lastRing.before /\ lastRing.out = lastRing.out0)

\* Two different bytes went through the generic store in order and the pop
\* after them found it empty.
C26_Witness ==
    /\ ~rb.overwrite
    /\ ringHist.generic.in = <<17, 34>>
    /\ ringHist.generic.out = <<17, 34>>
    /\ lastRing.op = "pop"
    /\ lastRing.store = "generic"
    /\ ~lastRing.ok
    /\ lastRing.out = 170

\* The store the last ring buffer call worked on, as it is now.
RingStore == IF lastRing.store = "pow2" THEN pw ELSE rb

\* full() of the store the last ring buffer call worked on, before the call.
WasFullStore ==
    IF lastRing.store = "pow2"
    THEN osusat_ring_buffer_pow2_full(lastRing.before)
    ELSE osusat_ring_buffer_full(lastRing.before)

\* The last ring buffer call worked on a store that never evicts.
NoEviction == lastRing.store = "pow2" \/ ~rb.overwrite

\* C27: without overwrite a store of capacity c never holds more than c-1
\* bytes and full() is true exactly when it holds c-1; push on a full store
\* returns false and leaves the store as it was, and a pop that follows
\* returns the byte that was oldest before the rejected push.
C27_FullRejects ==
    [][/\ ~rb'.overwrite =>
              /\ Len(StoreBytes(rb')) <= rb'.capacity - 1
              /\ osusat_ring_buffer_full(rb')
                     <=> Len(StoreBytes(rb')) = rb'.capacity - 1
       /\ pw' # UninitPow2 =>
              /\ Len(StoreBytes(pw')) <= pw'.capacity - 1
              /\ osusat_ring_buffer_pow2_full(pw')
                     <=> Len(StoreBytes(pw')) = pw'.capacity - 1
       /\ (lastRing'.op = "push" /\ NoEviction') =>
              /\ lastRing'.ok <=> ~WasFullStore'
              /\ ~lastRing'.ok => RingStore' = lastRing'.before
       /\ (/\ lastRing.op = "push" /\ NoEviction /\ ~lastRing.ok
           /\ lastRing'.op = "pop" /\ lastRing'.store = lastRing.store
           /\ StoreBytes(lastRing.before) # <<>>) =>
              /\ lastRing'.ok
              /\ lastRing'.out = Head(StoreBytes(lastRing.before))
      ]_vars

\* A store of capacity 3 without overwrite holds two bytes and has just
\* rejected a third.
C27_Witness ==
    /\ ~rb.overwrite
    /\ rb.capacity = 3
    /\ lastRing.op = "push"
    /\ lastRing.store = "generic"
    /\ lastRing.arg = 17
    /\ ~lastRing.ok
    /\ osusat_ring_buffer_full(rb)
    /\ StoreBytes(rb) = <<17, 34>>

\* A sequence without its first element; the empty sequence stays empty.
DropOldest(s) == SubSeq(s, 2, Len(s))

\* The last call was a push on the generic store in overwrite mode, of
\* capacity c or more; what the push has to have done with the store.
OverwritePushFrom(c) ==
    (/\ lastRing.op = "push" /\ lastRing.store = "generic"
     /\ rb.overwrite /\ rb.capacity >= c) =>
        /\ lastRing.ok
        /\ StoreBytes(rb) # <<>>
        /\ StoreBytes(rb)[Len(StoreBytes(rb))] = lastRing.arg
        /\ osusat_ring_buffer_full(lastRing.before) =>
               /\ StoreBytes(rb) =
                      DropOldest(StoreBytes(lastRing.before))
                          \o <<lastRing.arg>>
               /\ osusat_ring_buffer_size(rb) = rb.capacity - 1
        /\ ~osusat_ring_buffer_full(lastRing.before) =>
               StoreBytes(rb) = StoreBytes(lastRing.before) \o <<lastRing.arg>>

\* C28: in overwrite mode, for every capacity from 1 up, push returns true
\* and the pushed byte is then the newest byte of the store; a push on a full
\* store drops the oldest byte only, keeps the order of the others, and
\* leaves size() at capacity-1.
C28_OverwritePush == OverwritePushFrom(1)

\* The same from capacity 2 up.
OverwritePushFromTwo == OverwritePushFrom(2)

\* C29: init of the power-of-two store returns false exactly for the
\* capacities that are not powers of two, zero among them, and then writes
\* no field of the handle; for a power of two it returns true and leaves
\* mask = capacity - 1, head = tail = 0 and the store empty.
C29_Pow2Init ==
    lastRing.op = "init" =>
        /\ lastRing.ok <=> lastRing.arg \in {1, 2, 4, 8, 16}
        /\ ~lastRing.ok => pw = lastRing.before
        /\ lastRing.ok =>
               /\ pw.capacity = lastRing.arg
               /\ pw.mask = lastRing.arg - 1
               /\ pw.head = 0
               /\ pw.tail = 0
               /\ osusat_ring_buffer_pow2_empty(pw)
               /\ StoreBytes(pw) = <<>>

\* Capacity 8 was accepted with mask 7, a byte was pushed, and capacity 10
\* was then rejected: the handle is as the first init and the push left it.
C29_Witness ==
    /\ lastRing.op = "init"
    /\ lastRing.arg = 10
    /\ ~lastRing.ok
    /\ pw = lastRing.before
    /\ pw.capacity = 8
    /\ pw.mask = 7
    /\ StoreBytes(pw) = <<17>>

\* Capacity 10 was rejected on a handle never set up, which is still as it
\* was declared.
C29_WitnessRejected ==
    /\ lastRing.op = "init"
    /\ lastRing.arg = 10
    /\ ~lastRing.ok
    /\ pw = UninitPow2

\* ------------------------------------------------------- init(), again

\* The step is a call of init() from the main loop: a call that is over in
\* one step and is not subscribe().
Reinit == stack = <<>> /\ stack' = <<>> /\ calls' < calls /\ lastOp' = lastOp

\* C30: init() on a bus in use leaves the subscriber table and the queue
\* empty, whatever they held; every handler invocation after it is for a
\* subscription that is in the table now, so made since, and for an event
\* published since, and with nothing subscribed since process() invokes no
\* handler.
C30_ReinitReplaces ==
    [][/\ Reinit =>
              /\ sub_count' = 0
              /\ subs' = ClearedSubs
              /\ head' = 0
              /\ tail' = 0
              /\ ~QueueNotEmpty'
              /\ queue' = Bound(lastInit'[1], lastInit'[2]).queue
              /\ capacity' = Bound(lastInit'[1], lastInit'[2]).capacity
       /\ (hlog' # hlog /\ hlog' # <<>>) =>
              LET e == hlog'[Len(hlog')]
              IN  /\ e.sub < sub_count
                  /\ subs[e.sub] = [id |-> e.id, handler |-> e.handler]
                  /\ e.seq >= 0
                  /\ \E k \in 1..Len(pending) : pending[k].seq = e.seq
      ]_vars

\* One subscribe, one publish for the subscribed id, init() with the same
\* storage, and process(), which is about to return: the event is still in
\* slot 0 of the storage, the table and the queue are empty and no handler
\* was invoked.
C30_Witness ==
    /\ calls = MaxCalls - 4
    /\ hcalls = 0
    /\ lastOp # <<>>
    /\ lastOp.ret
    /\ storage[0].id = lastOp.id
    /\ queue = STORAGE
    /\ sub_count = 0
    /\ subs = ClearedSubs
    /\ head = 0
    /\ tail = 0
    /\ Depth = 1
    /\ Top.op = "process"
    /\ Top.pc = "r_ret"
    /\ hlog = <<>>

\* ------------------------------------------------------ record framing

\* The records flushed last were all serialised whole and none was evicted:
\* together they take no more than the store held before a push met it full.
Untouched ==
    /\ FlushRuns
    /\ AllRegular
    /\ TotalSize(Recorded) <= lastFlush.before.capacity - 1

\* Iteration i of the last flush started at the first header byte of record
\* i and popped the whole of it: its header reads back as the header written
\* and it popped message_len + 1 message bytes.
Framed(i) ==
    /\ i <= Len(Recorded)
    /\ delivered[i].entry.level = Recorded[i].level
    /\ delivered[i].entry.component_id = Recorded[i].component_id
    /\ delivered[i].entry.line = Recorded[i].line
    /\ delivered[i].entry.message_len = Len(Cut(Recorded[i].text))
    /\ delivered[i].pops = delivered[i].entry.message_len + 1

\* No character of the text is a zero byte.
NoZeroByte(w) == \A k \in 1..Len(w.text) : w.text[k] # 0

\* C31: for records serialised whole and not touched by eviction, each
\* iteration of flush pops the header and message_len + 1 message bytes, so
\* iteration i starts at record i and there are as many iterations as
\* records; whatever bytes the messages hold, a zero byte included.
C31_Framing ==
    Untouched =>
        /\ Len(delivered) = Len(Recorded)
        /\ \A i \in 1..Len(delivered) : Framed(i)

\* The same for records whose messages hold no zero byte.
FramingWithoutZero ==
    (Untouched /\ \A i \in 1..Len(Recorded) : NoZeroByte(Recorded[i])) =>
        /\ Len(delivered) = Len(Recorded)
        /\ \A i \in 1..Len(delivered) : Framed(i)

\* ----------------------------------------------- overwrite, last record

\* The records flushed last were written whole to an overwrite-mode store,
\* each smaller than the store, and together they exceed what it holds.
Overflowed ==
    /\ FlushRuns
    /\ AllRegular
    /\ lastFlush.before.overwrite
    /\ Recorded # <<>>
    /\ \A i \in 1..Len(Recorded) :
           RecordSize(Recorded[i]) <= lastFlush.before.capacity - 1
    /\ TotalSize(Recorded) > lastFlush.before.capacity - 1

\* C32: a flush after writes that overflowed an overwrite-mode store, every
\* record smaller than the store, delivers at least one record, and the last
\* one it delivers is the record written last, header and message as
\* written.
C32_LastSurvives ==
    Overflowed =>
        /\ flush_ret >= 1
        /\ delivered # <<>>
        /\ Matches(delivered[Len(delivered)], Recorded[Len(Recorded)])

\* ------------------------------------------------------- slot reuse

\* The payload array publish() leaves in a slot that was never used, for
\* the arguments of a pending event: the bytes copied, zeros after them.
FreshPayload(p) ==
    IF p.ptr # NULL /\ Min(p.len, OSUSAT_EVENT_MAX_PAYLOAD) > 0
       THEN [k \in PayloadIdx |->
               IF k <= Min(p.len, OSUSAT_EVENT_MAX_PAYLOAD) THEN p.buf[k]
                                                            ELSE 0]
       ELSE ZeroPayload

\* C33: the event a handler is handed depends on the arguments of its
\* publish() alone: its whole payload array, the bytes from payload_len on
\* included, is what the same publish() leaves in a slot never used before,
\* whatever events the slot held earlier.
C33_PayloadTail ==
    (At("r_handler") /\ pending # <<>>) =>
        Top.snap.payload = FreshPayload(Head(pending))

\* The same for the bytes below payload_len alone.
PayloadHeadOnly ==
    (At("r_handler") /\ pending # <<>>) =>
        \A k \in 1..Top.snap.payload_len :
            Top.snap.payload[k] = FreshPayload(Head(pending))[k]

\* ------------------------------------------------------ timestamp order

\* The cells of the store, counted from the oldest, that hold the first byte
\* of a record whose four timestamp bytes are all in the store.
HeaderCells ==
    {j \in 1..Len(LiveCells) :
        /\ LiveCells[j].k = 1
        /\ j + 3 <= Len(LiveCells)
        /\ \A d \in 1..3 : /\ LiveCells[j + d].rid = LiveCells[j].rid
                           /\ LiveCells[j + d].k = d + 1}

\* timestamp_ms of the record that starts at cell j.
TimestampAt(j) ==
    StoreBytes(rb)[j] + 256 * StoreBytes(rb)[j + 1]
        + 65536 * StoreBytes(rb)[j + 2] + 16777216 * StoreBytes(rb)[j + 3]

\* C34: with a timestamp source that never goes back, the records of the
\* store are in non-decreasing timestamp order at all times, also when
\* write() calls from interrupts preempt a write() of the main loop.
C34_TimestampOrder ==
    \A i \in HeaderCells : \A j \in HeaderCells :
        i < j => TimestampAt(i) <= TimestampAt(j)

\* The same for records written from one context.
TimestampOrderPerContext ==
    \A i \in HeaderCells : \A j \in HeaderCells :
        (i < j /\ LiveCells[i].ctx = LiveCells[j].ctx)
            => TimestampAt(i) <= TimestampAt(j)

\* ------------------------------------------- the two stores side by side

\* C35: set up with the same power-of-two capacity and given the same push,
\* pop, peek, empty and full calls, the power-of-two store and the generic
\* store without overwrite return the same results at every call and hold
\* the same head, tail and contents after it.
C35_SameStore ==
    /\ rb.head = pw.head
    /\ rb.tail = pw.tail
    /\ rb.capacity = pw.capacity
    /\ rb.buffer = pw.buffer
    /\ StoreBytes(rb) = StoreBytes(pw)
    /\ lastRing.op # "none" =>
           /\ lastRing.ok = lastRing.ok2
           /\ lastRing.out = lastRing.out2

\* At capacity 4 both stores have wrapped (head is behind tail), hold two
\* bytes, and the peek just made returned the older of them from both.
C35_Witness ==
    /\ rb.capacity = 4
    /\ pw.mask = 3
    /\ pw.head < pw.tail
    /\ rb.head < rb.tail
    /\ StoreBytes(pw) = <<17, 34>>
    /\ lastRing.op = "peek"
    /\ lastRing.ok
    /\ lastRing.ok2
    /\ lastRing.out = 17
    /\ lastRing.out2 = 17

====
